---- MODULE Spec2Model ----
(***************************************************************************)
(* Model of the Enron attachment pipeline:                                 *)
(*   - the content-addressed attachment stores of EDRMExtractor            *)
(*     (extract_edrm_attachments.py) and EmailParser (extract_emails.py),  *)
(*   - the record-linkage matcher and the loader EDRMLoader                *)
(*     (load_edrm_attachments.py),                                         *)
(*   - the link insert of PostgresLoader.load_batch (load_to_postgres.py), *)
(*   - the batch orchestrator process_all_edrm.py with its ledger file.    *)
(*   - process_zip of EDRMExtractor over the archives of one run,          *)
(*   - two loader processes that insert the same attachment concurrently.  *)
(*                                                                         *)
(* Text is a sequence of one-character strings, so that prefixes, case     *)
(* folding, trimming and SQL LIKE patterns are computed character by       *)
(* character.  An Optional value is a sequence of length 0 (None) or 1.    *)
(***************************************************************************)
EXTENDS Integers, Sequences, FiniteSets, TLC

VARIABLES
    \* ---- matcher (find_matching_messages applied to one candidate)
    messages,        \* rows of the messages table joined with people
    q,               \* the candidate last looked up: raw subject, date_sent, from_addr
    matched,         \* the ids find_matching_messages returned for q
    executed,        \* number of SELECTs the cursor has executed
    \* ---- EDRMExtractor
    hash_cache,      \* self.hash_cache: sha256 -> storage_path
    blobs,           \* files under the attachments directory: set of paths
    stats,           \* self.stats of the extractor
    attachments,     \* self.attachments: the records kept in the results
    putLog,          \* history: payload -> outcomes of the puts of this run
    stored,          \* history: payloads stored so far, with the digest assigned
    tool,            \* which script runs: "extract_edrm", "extract_emails", "process_zip"
    nrun,            \* number of runs started over the same output directory
    last_put,        \* history: the last call of the store and its outcome
    zf,              \* process_zip: the archive it works on and what is left of it
    \* ---- EmailParser
    attachment_hashes,  \* self.attachment_hashes
    pstats,             \* self.stats of the parser
    \* ---- EDRMLoader / PostgresLoader link table
    db,              \* the relational store as the open transaction sees it
    committed,       \* the relational store as of the last commit
    aborted,         \* the open transaction is in the failed state
    attachment_cache,\* self.attachment_cache: sha256 -> attachment id
    lstats,          \* self.stats of the loader
    target_files,    \* files under target_attachments_dir
    next_id,         \* the next value of the id sequences of the tables
    lpc,             \* position of the loader: "start", "load", "done", "crashed",
                     \* "between" (PostgresLoader between two batch files)
    nload,           \* number of loader processes started so far
    handled,         \* history: number of emails handled so far, over all loads
    cur,             \* history: the email load() handled last and what it did
    loader,          \* which script runs: "load_edrm" or "load_postgres"
    people_cache,    \* PostgresLoader.people_cache: email -> person id
    bstats,          \* PostgresLoader.stats
    \* ---- two loader processes at the same time
    workers,         \* the state of each of the two processes
    \* ---- process_all_edrm
    ledger,          \* contents of processed_zips.json
    processed,       \* the in-memory set `processed`
    to_process,      \* the list `to_process`
    batch_num,       \* loop variable of the batch loop
    ppc,             \* position of the orchestrator: "start", "batches", "done"
    zip_files,       \* the ZIP files of the input directory
    loaded_rows,     \* units whose attachment and link rows are in the database
    run              \* the arguments of the run, and its history

mvars == <<messages, q, matched, executed>>
evars == <<hash_cache, blobs, stats, attachments, putLog, stored, tool, nrun,
           last_put, zf>>
pvars == <<attachment_hashes, pstats>>
lvars == <<db, committed, aborted, attachment_cache, lstats, target_files, next_id,
           lpc, nload, handled, cur, loader, people_cache, bstats>>
ovars == <<ledger, processed, to_process, batch_num, ppc, zip_files,
           loaded_rows, run>>
rvars == <<workers>>
vars  == <<mvars, evars, pvars, lvars, ovars, rvars>>

(***************************************************************************)
(* Bounds of the model.                                                    *)
(***************************************************************************)
MaxTokens == 3      \* a candidate subject is built from at most this many tokens
MaxStored == 1      \* rows of the messages table in the matcher specification
MaxPuts == 3        \* attachments put into a store in one run
MaxRuns == 2        \* runs of an extractor over the same output directory
MaxZipCalls == 2    \* calls of process_zip in one run of the extractor
MaxDocs == 4        \* File documents in the metadata XMLs of one run
MaxEmails == 2      \* emails the loader runs handle in all, after the skipped ones
MaxLoads == 2       \* runs of the loader over the same database
MaxZips == 3        \* ZIP files in the input directory
MaxBatchSize == 2   \* --batch-size
MaxPipeRuns == 2    \* runs of process_all_edrm over the same directories

(***************************************************************************)
(* Text helpers.                                                           *)
(***************************************************************************)
None == <<>>
Some(x) == <<x>>

\* str.lower() / SQL LOWER() on one character
LowerChar(c) ==
    CASE c = "R" -> "r" [] c = "E" -> "e" [] c = "F" -> "f" [] c = "W" -> "w"
      [] c = "D" -> "d" [] c = "X" -> "x" [] c = "A" -> "a" [] c = "N" -> "n"
      [] OTHER -> c

Lower(s) == [i \in 1..Len(s) |-> LowerChar(s[i])]

IsSpace(c) == c = " "

RECURSIVE LStrip(_)
LStrip(s) == IF s # <<>> /\ IsSpace(Head(s)) THEN LStrip(Tail(s)) ELSE s

RECURSIVE RStrip(_)
RStrip(s) ==
    IF s # <<>> /\ IsSpace(s[Len(s)]) THEN RStrip(SubSeq(s, 1, Len(s) - 1)) ELSE s

\* str.strip()
Strip(s) == RStrip(LStrip(s))

HasPrefix(s, p) == Len(s) >= Len(p) /\ SubSeq(s, 1, Len(p)) = p

Drop(s, n) == SubSeq(s, n + 1, Len(s))

\* s contains t as a literal substring
Contains(s, t) ==
    \E i \in 1..(Len(s) - Len(t) + 1) : SubSeq(s, i, i + Len(t) - 1) = t


(***************************************************************************)
(* load_edrm_attachments.py: parsing of the candidate's metadata.          *)
(***************************************************************************)

\* The leftmost position where the regular expression <([^>]+)> matches:
\* a "<", at least one character other than ">", then a ">".
AngleMatches(s) ==
    {i \in 1..Len(s) :
        /\ s[i] = "<"
        /\ \E j \in (i + 2)..Len(s) :
              /\ s[j] = ">"
              /\ \A k \in (i + 1)..(j - 1) : s[k] # ">"}

AngleGroup(s, i) ==
    LET j == CHOOSE j \in (i + 2)..Len(s) :
                 s[j] = ">" /\ \A k \in (i + 1)..(j - 1) : s[k] # ">"
    IN  SubSeq(s, i + 1, j - 1)

\* parse_email_from_string: None for an empty string, else the lower-cased
\* text between angle brackets, else the stripped, lower-cased string.
parse_email_from_string(email_str) ==
    IF email_str = <<>> THEN None
    ELSE IF AngleMatches(email_str) # {}
         THEN LET i == CHOOSE i \in AngleMatches(email_str) :
                           \A k \in AngleMatches(email_str) : i <= k
              IN  Some(Lower(AngleGroup(email_str, i)))
         ELSE Some(Lower(Strip(email_str)))

\* A date_sent string is represented by what it spells: nothing, text that
\* datetime.fromisoformat rejects, or an ISO timestamp of hour t with an
\* optional fractional part ".0" and the "+00:00" suffix.
DateEmpty == [kind |-> "empty"]
DateBad == [kind |-> "bad"]
DateIso(t, frac) == [kind |-> "iso", t |-> t, frac |-> frac]

\* parse_date: None for an empty or unparseable string; the fractional part
\* and the +00:00 suffix are removed before parsing.
parse_date(date_str) ==
    IF date_str.kind = "empty" THEN None
    ELSE IF date_str.kind = "bad" THEN None
    ELSE Some(date_str.t)

\* re.sub(r'^(Re|Fw|Fwd):\s*', '', subject, flags=re.IGNORECASE): the
\* pattern is anchored at the start, so at most one marker is removed.
SubMarker(subject) ==
    LET l == Lower(subject)
    IN  IF HasPrefix(l, <<"r", "e", ":">>) \/ HasPrefix(l, <<"f", "w", ":">>)
        THEN LStrip(Drop(subject, 3))
        ELSE IF HasPrefix(l, <<"f", "w", "d", ":">>)
             THEN LStrip(Drop(subject, 4))
             ELSE subject

\* normalize_subject
normalize_subject(subject) ==
    IF subject = <<>> THEN <<>> ELSE Lower(Strip(SubMarker(subject)))

(***************************************************************************)
(* The SELECT of find_matching_messages.                                   *)
(***************************************************************************)
Window == 12     \* timedelta(hours=12)

\* SQL: string LIKE pattern ("%" any run of characters, "_" one character)
RECURSIVE Like(_, _)
Like(s, pat) ==
    IF pat = <<>> THEN s = <<>>
    ELSE IF Head(pat) = "%"
         THEN Like(s, Tail(pat)) \/ (s # <<>> /\ Like(Tail(s), pat))
         ELSE IF Head(pat) = "_"
              THEN s # <<>> /\ Like(Tail(s), Tail(pat))
              ELSE s # <<>> /\ Head(s) = Head(pat) /\ Like(Tail(s), Tail(pat))

\* the fifth query parameter
LikePattern(subject) ==
    IF normalize_subject(subject) # <<>>
    THEN <<"%">> \o normalize_subject(subject) \o <<"%">>
    ELSE <<>>

\* WHERE LOWER(p.email) = %s
SenderMatches(m, from_email) == Lower(m.email) = Lower(from_email)

\* a window that leaves its two bounds out
InWindow_exclusive(m, date) == m.date > date - Window /\ m.date < date + Window

\* AND m.date BETWEEN %s AND %s
InWindow(m, date) == m.date >= date - Window /\ m.date <= date + Window

\* AND (LOWER(m.subject) = %s OR LOWER(m.subject) LIKE %s)
SubjectMatches(m, subject) ==
    \/ Lower(m.subject) = Lower(subject)
    \/ Like(Lower(m.subject), LikePattern(subject))

\* `if not date or not from_email`
Absent(date, from_email) ==
    date = None \/ from_email = None \/ from_email = Some(<<>>)

\* find_matching_messages without the test of line 123: the SELECT is run
\* with the NULL parameter and finds nothing
find_matching_messages_unguarded(rows, subject, date, from_email) ==
    [ids |-> IF Absent(date, from_email) THEN {}
             ELSE {m.id : m \in {r \in rows :
                        /\ SenderMatches(r, from_email[1])
                        /\ InWindow(r, date[1])
                        /\ SubjectMatches(r, subject)}},
     queries |-> 1]

\* find_matching_messages over the rows `rows`: the ids returned and the
\* number of SELECTs executed.
find_matching_messages(rows, subject, date, from_email) ==
    IF Absent(date, from_email)
    THEN [ids |-> {}, queries |-> 0]
    ELSE [ids |-> {m.id : m \in {r \in rows :
                        /\ SenderMatches(r, from_email[1])
                        /\ InWindow(r, date[1])
                        /\ SubjectMatches(r, subject)}},
          queries |-> 1]


(***************************************************************************)
(* Inputs of the matcher specification.                                    *)
(***************************************************************************)
RE == <<"R", "e", ":">>
FW == <<"F", "W", ":">>
FWD == <<"f", "w", "d", ":">>
SP == <<" ">>
SubjX == <<"X">>
US == <<"_">>

Tokens == {RE, FW, FWD, SP, SubjX, US}

RECURSIVE Concats(_)
Concats(n) ==
    IF n = 0 THEN {<<>>}
    ELSE Concats(n - 1) \cup {s \o t : s \in Concats(n - 1), t \in Tokens}

\* 'Re: Re: FW: X', the subject the specification names
ReReFwX == RE \o SP \o RE \o SP \o FW \o SP \o SubjX

\* candidate subjects: every concatenation of at most MaxTokens tokens, and
\* a few longer ones
Subjects ==
    Concats(MaxTokens) \cup {ReReFwX, <<"%">>, <<"x", "%">>, <<"x", "_", "x">>}

Alice == <<"a", "@", "x">>
AliceUpper == <<"A", "@", "X">>
Bob == <<"b", "@", "x">>

\* from_addr strings of the EDRM metadata
FromAddrs ==
    {<<>>, SP, Alice, AliceUpper, Bob,
     <<"N", " ", "<">> \o AliceUpper \o <<">">>,
     <<"<", ">">>}

\* the candidate's sent time T, in hours
T == Window + 1

DateSents == {DateEmpty, DateBad, DateIso(T, FALSE), DateIso(T, TRUE)}

\* subjects of stored messages
StoredSubjects ==
    {<<>>, <<"x">>, <<"X">>, <<"r", "e", ":">>, RE \o SP \o SubjX,
     <<"x", "y", "x">>, <<"x", "_", "x">>}

\* dates of stored messages: T-13, T-12, T, T+6, T+12, T+13
StoredDates == {T - 13, T - Window, T, T + 6, T + Window, T + 13}

\* rows of messages JOIN people: Alice's messages at time T with every
\* subject, her messages with subject "x" at every time, and messages with
\* subject "x" at time T from the other senders
MsgUniverse ==
    [email : {Alice}, date : {T}, subject : StoredSubjects]
    \cup [email : {Alice}, date : StoredDates, subject : {<<"x">>}]
    \cup [email : {AliceUpper, Bob}, date : {T, T + 13}, subject : {<<"x">>}]

Stores ==
    UNION {{ {[id |-> i, email |-> f[i].email, date |-> f[i].date,
               subject |-> f[i].subject] : i \in 1..n}
             : f \in [1..n -> MsgUniverse]} : n \in 0..MaxStored}

\* the candidates looked up: every subject from Alice at T, and two subjects
\* with every sender string and date string
Candidates ==
    [subject : Subjects, date_sent : {DateIso(T, TRUE)}, from_addr : {AliceUpper}]
    \cup [subject : {<<"x">>, RE \o SP \o SubjX}, date_sent : DateSents,
          from_addr : FromAddrs]



(***************************************************************************)
(* The attachment stores: EDRMExtractor._extract_attachment_file and       *)
(* EmailParser._extract_attachments.                                       *)
(***************************************************************************)

\* max_attachment_size, 50 MB by default
MaxAttachmentSize == 50 * 1024 * 1024

\* payloads: a small one, one of exactly the maximum size, one above it
Payloads ==
    {[bytes |-> "p1", size |-> 1],
     [bytes |-> "p3", size |-> MaxAttachmentSize],
     [bytes |-> "p4", size |-> MaxAttachmentSize + 1]}

PayloadBytes == {d.bytes : d \in Payloads}

\* hashlib.sha256(data).hexdigest(): one digest per byte string (the model
\* keeps six hex digits; p1 and p3 share the first shard directory)
Sha256(data) ==
    CASE data.bytes = "p1" -> <<"a", "b", "c", "d", "0", "1">>
      [] data.bytes = "p3" -> <<"a", "b", "e", "f", "0", "3">>
      [] data.bytes = "p4" -> <<"f", "f", "e", "f", "0", "4">>

\* extensions of the EDRM metadata (#FileExtension, with the dot added)
Extensions == {<<>>, <<".", "d">>}

\* EDRMExtractor._get_storage_path: <attachments>/ab/cd/abcdef...ext
edrm_get_storage_path(sha256_hash, extension) ==
    <<SubSeq(sha256_hash, 1, 2), SubSeq(sha256_hash, 3, 4), sha256_hash \o extension>>

\* EmailParser._get_storage_path: ab/cd/abcdef...
parser_get_storage_path(sha256_hash) ==
    <<SubSeq(sha256_hash, 1, 2), SubSeq(sha256_hash, 3, 4), sha256_hash>>

\* the blob files that hold the digest d
BlobsOf(files, d) == {f \in files : SubSeq(f[3], 1, Len(d)) = d}

Put(f, k, v) == [x \in DOMAIN f \cup {k} |-> IF x = k THEN v ELSE f[x]]

Bump(st, field) == [st EXCEPT ![field] = @ + 1]

\* What the archive holds for an attachment: no member of that name, or a
\* member with its data; `io` is how the file system behaves for this call:
\* "ok", "read_error" (zip_file.read raises), "write_error" (open raises,
\* no file is left) or "write_partial" (write raises, a file is left).
Missing == [found |-> FALSE]
Member(data, io) == [found |-> TRUE, data |-> data, io |-> io]
IOs == {"ok", "read_error", "write_error", "write_partial"}
Members == {Missing} \cup {Member(d, io) : d \in Payloads, io \in IOs}

\* a size test that lets every payload through
TooLarge_never(data) == FALSE

\* len(data) > self.max_attachment_size
TooLarge(data) == data.size > MaxAttachmentSize

ExtractorStats0 ==
    [attachments_extracted |-> 0, attachments_deduplicated |-> 0,
     attachments_too_large |-> 0, bytes_extracted |-> 0, errors |-> 0,
     zips_processed |-> 0, attachments_found |-> 0]

\* extract_attachment_file without the duplicate check of lines 248-252
extract_attachment_file_no_dedup(e, extension, member) ==
    IF ~member.found
    THEN [hash_cache |-> e.hash_cache, blobs |-> e.blobs, stats |-> e.stats,
          ok |-> FALSE, sha256_hash |-> <<>>, storage_path |-> <<>>,
          outcome |-> "missing"]
    ELSE IF member.io # "ok" \/ member.data.size > MaxAttachmentSize
    THEN [hash_cache |-> e.hash_cache, blobs |-> e.blobs,
          stats |-> Bump(e.stats, IF member.io # "ok" THEN "errors"
                                  ELSE "attachments_too_large"),
          ok |-> FALSE, sha256_hash |-> <<>>, storage_path |-> <<>>,
          outcome |-> IF member.io # "ok" THEN "error" ELSE "too_large"]
    ELSE LET sha == Sha256(member.data)
             path == edrm_get_storage_path(sha, extension)
         IN  [hash_cache |-> Put(e.hash_cache, sha, path),
              blobs |-> e.blobs \cup {path},
              stats |-> [e.stats EXCEPT !.attachments_extracted = @ + 1,
                                        !.bytes_extracted = @ + member.data.size],
              ok |-> TRUE, sha256_hash |-> sha, storage_path |-> path,
              outcome |-> "extracted"]

\* EDRMExtractor._extract_attachment_file on the extractor state
\* e = [hash_cache, blobs, stats]: the new state, the return value `ok`, the
\* attachment's sha256_hash and storage_path, and the outcome.
extract_attachment_file(e, extension, member) ==
    LET res(hc, bl, st, ok, sha, path, outcome) ==
            [hash_cache |-> hc, blobs |-> bl, stats |-> st, ok |-> ok,
             sha256_hash |-> sha, storage_path |-> path, outcome |-> outcome]
    IN
    IF ~member.found
    THEN res(e.hash_cache, e.blobs, e.stats, FALSE, <<>>, <<>>, "missing")
    ELSE IF member.io = "read_error"
    THEN res(e.hash_cache, e.blobs, Bump(e.stats, "errors"), FALSE, <<>>, <<>>, "error")
    ELSE IF TooLarge(member.data)
    THEN res(e.hash_cache, e.blobs, Bump(e.stats, "attachments_too_large"),
             FALSE, <<>>, <<>>, "too_large")
    ELSE LET sha == Sha256(member.data)
             path == edrm_get_storage_path(sha, extension)
         IN
         IF sha \in DOMAIN e.hash_cache
         THEN res(e.hash_cache, e.blobs, Bump(e.stats, "attachments_deduplicated"),
                  TRUE, sha, e.hash_cache[sha], "dedup")
         ELSE IF member.io = "write_error"
         THEN res(e.hash_cache, e.blobs, Bump(e.stats, "errors"),
                  FALSE, sha, <<>>, "error")
         ELSE IF member.io = "write_partial"
         THEN res(e.hash_cache, e.blobs \cup {path}, Bump(e.stats, "errors"),
                  FALSE, sha, <<>>, "error")
         ELSE res(Put(e.hash_cache, sha, path), e.blobs \cup {path},
                  [e.stats EXCEPT !.attachments_extracted = @ + 1,
                                  !.bytes_extracted = @ + member.data.size],
                  TRUE, sha, path, "extracted")

ParserStats0 ==
    [attachments_extracted |-> 0, attachments_deduplicated |-> 0,
     attachments_skipped_size |-> 0, attachment_errors |-> 0]

\* One iteration of the loop of EmailParser._extract_attachments for a part
\* with the payload `member.data`, on the parser state
\* e = [attachment_hashes, blobs, stats].
parser_extract_attachment(e, member) ==
    LET res(hs, bl, st, ok, sha, path, outcome) ==
            [attachment_hashes |-> hs, blobs |-> bl, stats |-> st, ok |-> ok,
             sha256_hash |-> sha, storage_path |-> path, outcome |-> outcome]
    IN
    IF ~member.found
    THEN res(e.attachment_hashes, e.blobs, e.stats, FALSE, <<>>, <<>>, "missing")
    ELSE IF member.io = "read_error"
    THEN res(e.attachment_hashes, e.blobs, Bump(e.stats, "attachment_errors"),
             FALSE, <<>>, <<>>, "error")
    ELSE IF TooLarge(member.data)
    THEN res(e.attachment_hashes, e.blobs, Bump(e.stats, "attachments_skipped_size"),
             FALSE, <<>>, <<>>, "too_large")
    ELSE LET sha == Sha256(member.data)
             path == parser_get_storage_path(sha)
         IN
         IF sha \in e.attachment_hashes
         THEN res(e.attachment_hashes, e.blobs,
                  Bump(e.stats, "attachments_deduplicated"), TRUE, sha, path, "dedup")
         ELSE IF member.io = "write_error"
         THEN res(e.attachment_hashes, e.blobs, Bump(e.stats, "attachment_errors"),
                  FALSE, sha, <<>>, "error")
         ELSE IF member.io = "write_partial"
         THEN res(e.attachment_hashes, e.blobs \cup {path},
                  Bump(e.stats, "attachment_errors"), FALSE, sha, <<>>, "error")
         ELSE res(e.attachment_hashes \cup {sha}, e.blobs \cup {path},
                  Bump(e.stats, "attachments_extracted"), TRUE, sha, path, "extracted")


(***************************************************************************)
(* Actions of the extractors.                                              *)
(***************************************************************************)
PutLog0 == [b \in PayloadBytes |-> [extracted |-> 0, dedup |-> 0, other |-> 0]]

Logged(log, member, outcome) ==
    IF ~member.found THEN log
    ELSE [log EXCEPT ![member.data.bytes] =
             IF outcome = "extracted" THEN [@ EXCEPT !.extracted = @ + 1]
             ELSE IF outcome = "dedup" THEN [@ EXCEPT !.dedup = @ + 1]
             ELSE [@ EXCEPT !.other = @ + 1]]

RECURSIVE SumOver(_, _)
SumOver(f, S) ==
    IF S = {} THEN 0
    ELSE LET x == CHOOSE x \in S : TRUE IN f[x] + SumOver(f, S \ {x})

\* calls of the store made in this run
Calls(log) ==
    SumOver([b \in PayloadBytes |-> log[b].extracted + log[b].dedup + log[b].other],
            PayloadBytes)

\* One iteration of the loop of process_zip (lines 293-298): the attachment
\* is extracted and, when that returns True, kept in self.attachments.
ExtractAttachment(extension, member) ==
    /\ tool = "extract_edrm"
    /\ Calls(putLog) < MaxPuts
    /\ \E r \in {extract_attachment_file(
                    [hash_cache |-> hash_cache, blobs |-> blobs, stats |-> stats],
                    extension, member)} :
           /\ hash_cache' = r.hash_cache
           /\ blobs' = r.blobs
           /\ stats' = r.stats
           /\ attachments' =
                 IF r.ok
                 THEN Append(attachments,
                             [sha256_hash |-> r.sha256_hash,
                              storage_path |-> r.storage_path,
                              extension |-> extension])
                 ELSE attachments
           /\ putLog' = Logged(putLog, member, r.outcome)
           /\ stored' =
                 IF r.ok
                 THEN stored \cup {[bytes |-> member.data.bytes,
                                    sha256_hash |-> r.sha256_hash,
                                    storage_path |-> r.storage_path]}
                 ELSE stored
           /\ last_put' = Some([member |-> member, extension |-> extension,
                                outcome |-> r.outcome, ok |-> r.ok])
    /\ UNCHANGED <<tool, nrun, zf, pvars, mvars, rvars, lvars, ovars>>

\* One iteration of the loop of EmailParser._extract_attachments.
ParsePart(member) ==
    /\ tool = "extract_emails"
    /\ Calls(putLog) < MaxPuts
    /\ \E r \in {parser_extract_attachment(
                    [attachment_hashes |-> attachment_hashes, blobs |-> blobs,
                     stats |-> pstats], member)} :
           /\ attachment_hashes' = r.attachment_hashes
           /\ blobs' = r.blobs
           /\ pstats' = r.stats
           /\ attachments' =
                 IF r.ok
                 THEN Append(attachments,
                             [sha256_hash |-> r.sha256_hash,
                              storage_path |-> r.storage_path,
                              extension |-> <<>>])
                 ELSE attachments
           /\ putLog' = Logged(putLog, member, r.outcome)
           /\ stored' =
                 IF r.ok
                 THEN stored \cup {[bytes |-> member.data.bytes,
                                    sha256_hash |-> r.sha256_hash,
                                    storage_path |-> r.storage_path]}
                 ELSE stored
           /\ last_put' = Some([member |-> member, extension |-> <<>>,
                                outcome |-> r.outcome, ok |-> r.ok])
    /\ UNCHANGED <<tool, nrun, zf, hash_cache, stats, mvars, rvars, lvars, ovars>>

\* The script is started again over the same output directory: __init__
\* builds a new extractor with an empty index and zeroed statistics; the
\* files on disk stay.
NewRun ==
    /\ tool \in {"extract_edrm", "extract_emails"}
    /\ nrun < MaxRuns
    /\ nrun' = nrun + 1
    /\ hash_cache' = <<>>
    /\ attachment_hashes' = {}
    /\ stats' = ExtractorStats0
    /\ pstats' = ParserStats0
    /\ attachments' = <<>>
    /\ putLog' = PutLog0
    /\ last_put' = None
    /\ UNCHANGED <<tool, blobs, stored, zf, mvars, rvars, lvars, ovars>>

ENext ==
    \/ \E x \in Extensions, m \in Members : ExtractAttachment(x, m)
    \/ \E m \in Members : ParsePart(m)
    \/ NewRun

(***************************************************************************)
(* EDRMExtractor.process_zip, archive by archive.                          *)
(*   zf.kind   what the archive is (history)                               *)
(*   zf.open   the `with zipfile.ZipFile(...)` block is being executed      *)
(*   zf.todo   entries of the dict `attachments` the loop has not taken    *)
(*   zf.n      calls of process_zip so far                                 *)
(***************************************************************************)
Zf0 == [kind |-> "none", open |-> FALSE, todo |-> 0, n |-> 0]

\* What process_zip can be given: a file that is no ZIP archive, an archive
\* without a *zl_*.xml member, one whose XML is not well-formed, one whose
\* XML has a FileSize that int() refuses (or whose XML member cannot be
\* read), and a well-formed one
ZipKinds == {"bad_zip", "no_xml", "xml_parse_error", "xml_error", "ok"}

\* an append that keeps every attachment, extracted or not
Kept_always(records, r, extension) ==
    Append(records, [sha256_hash |-> r.sha256_hash,
                     storage_path |-> r.storage_path, extension |-> extension])

\* lines 297-298: `if self._extract_attachment_file(...):
\*                     self.attachments.append(attachment)`
Kept(records, r, extension) ==
    IF r.ok
    THEN Append(records, [sha256_hash |-> r.sha256_hash,
                          storage_path |-> r.storage_path, extension |-> extension])
    ELSE records

\* process_zip up to the loop over the attachments (lines 276-292).  The
\* XML holds `found` File documents, `dup` of which repeat the DocID of
\* another one (the dict keeps one entry per DocID).
OpenZip(kind, found, dup) ==
    /\ tool = "process_zip"
    /\ ~zf.open
    /\ zf.n < MaxZipCalls
    /\ stats.attachments_found + found <= MaxDocs
    /\ dup < found \/ (dup = 0 /\ found = 0)
    /\ kind \in {"bad_zip", "no_xml", "xml_parse_error"} => found = 0
    /\ stats' =
          CASE kind = "bad_zip" -> Bump(stats, "errors")
            [] kind = "no_xml" -> stats
            [] kind = "xml_parse_error" -> Bump(stats, "zips_processed")
            [] kind = "xml_error" ->
                  [stats EXCEPT !.attachments_found = @ + found,
                                !.errors = @ + 1]
            [] OTHER -> [stats EXCEPT !.attachments_found = @ + found]
    /\ zf' = [kind |-> kind, open |-> kind = "ok",
              todo |-> IF kind = "ok" THEN found - dup ELSE 0, n |-> zf.n + 1]
    /\ last_put' = None
    /\ UNCHANGED <<hash_cache, blobs, attachments, putLog, stored, tool, nrun,
                   pvars, mvars, rvars, lvars, ovars>>

\* one iteration of the loop of lines 293-298
ExtractNative(extension, member) ==
    /\ tool = "process_zip"
    /\ zf.open /\ zf.todo > 0
    /\ \E r \in {extract_attachment_file(
                    [hash_cache |-> hash_cache, blobs |-> blobs, stats |-> stats],
                    extension, member)} :
           /\ hash_cache' = r.hash_cache
           /\ blobs' = r.blobs
           /\ stats' = r.stats
           /\ attachments' = Kept(attachments, r, extension)
           /\ putLog' = Logged(putLog, member, r.outcome)
           /\ stored' =
                 IF r.ok
                 THEN stored \cup {[bytes |-> member.data.bytes,
                                    sha256_hash |-> r.sha256_hash,
                                    storage_path |-> r.storage_path]}
                 ELSE stored
           /\ last_put' = Some([member |-> member, extension |-> extension,
                                outcome |-> r.outcome, ok |-> r.ok])
    /\ zf' = [zf EXCEPT !.todo = @ - 1]
    /\ UNCHANGED <<tool, nrun, pvars, mvars, rvars, lvars, ovars>>

\* line 300: the loop is over
CloseZip ==
    /\ tool = "process_zip"
    /\ zf.open /\ zf.todo = 0
    /\ stats' = Bump(stats, "zips_processed")
    /\ zf' = [zf EXCEPT !.open = FALSE]
    /\ UNCHANGED <<hash_cache, blobs, attachments, putLog, stored, tool, nrun,
                   last_put, pvars, mvars, rvars, lvars, ovars>>

ZNext ==
    \/ \E kind \in ZipKinds, found \in 0..MaxDocs, dup \in 0..1 :
           OpenZip(kind, found, dup)
    \/ \E x \in Extensions, m \in Members : ExtractNative(x, m)
    \/ CloseZip


(***************************************************************************)
(* The matcher applied to one candidate: lines 266-273 of load().          *)
(***************************************************************************)
Lookup(c) ==
    /\ q = None
    /\ \E r \in {find_matching_messages(messages, c.subject,
                                         parse_date(c.date_sent),
                                         parse_email_from_string(c.from_addr))} :
           /\ matched' = r.ids
           /\ executed' = executed + r.queries
    /\ q' = Some(c)
    /\ UNCHANGED <<messages, rvars, evars, pvars, lvars, ovars>>

MNext == \E c \in Candidates : Lookup(c)

(***************************************************************************)
(* EDRMLoader: the relational store and the statements load() executes.    *)
(***************************************************************************)
CommitInterval == 100    \* `if self.stats["emails_processed"] % 100 == 0`

\* The loader state the helpers work on:
\*   db, aborted, cache, stats, files, next_id   the variables of the same name
\*   k        the k-th statement executed from now on raises (0: none does)
\*   client   that statement raises in the driver, before it is sent (a value
\*            the driver cannot adapt): the server never sees it and the
\*            transaction stays usable
\*   crashed  an exception has left load()
\*   calls    history: the link inserts attempted, in order
\*   resolved history: (order, id) of the attachments that got an id
\*   failed   history: a statement has raised since the email was taken

\* cursor.execute raises: the transaction is in the failed state, or this is
\* the statement chosen to fail
Fails(L) == L.aborted \/ L.k = 1

\* the loader state after cursor.execute
Executed(L) ==
    [L EXCEPT !.aborted = @ \/ (L.k = 1 /\ ~L.client),
              !.failed = @ \/ Fails(L),
              !.k = IF @ > 0 THEN @ - 1 ELSE 0]

\* the INSERT without its ON CONFLICT clause and without the unique index
InsertLink_always(links, row) == links \cup {row}

\* INSERT INTO message_attachments ... ON CONFLICT (message_id,
\* attachment_id, attachment_order) DO NOTHING
InsertLink(links, row) ==
    IF \E r \in links : /\ r.message_id = row.message_id
                        /\ r.attachment_id = row.attachment_id
                        /\ r.attachment_order = row.attachment_order
    THEN links
    ELSE links \cup {row}

\* INSERT INTO attachments ... ON CONFLICT (sha256_hash) DO UPDATE SET
\* sha256_hash = attachments.sha256_hash RETURNING id: the rows afterwards
\* and the id returned (the sequence value `id` is taken either way)
UpsertAttachment(rows, id, att, storage_path) ==
    IF \E r \in rows : r.sha256_hash = att.sha256_hash
    THEN [rows |-> rows,
          id |-> (CHOOSE r \in rows : r.sha256_hash = att.sha256_hash).id]
    ELSE [rows |-> rows \cup {[id |-> id, sha256_hash |-> att.sha256_hash,
                               original_filename |-> att.filename,
                               storage_path |-> storage_path]},
          id |-> id]

\* EDRMLoader.get_or_create_attachment: the loader state afterwards and the
\* Optional id returned
get_or_create_attachment(L, att) ==
    LET path == edrm_get_storage_path(att.sha256_hash, att.extension) IN
    IF att.sha256_hash \in DOMAIN L.cache
    THEN [L |-> L, id |-> Some(L.cache[att.sha256_hash])]
    ELSE IF path \notin L.files /\ ~att.source_exists
    THEN [L |-> L, id |-> None]
    ELSE LET L1 == [L EXCEPT !.files = @ \cup {path}] IN
         IF Fails(L1)
         THEN [L |-> [Executed(L1) EXCEPT !.stats = Bump(@, "errors")], id |-> None]
         ELSE LET u == UpsertAttachment(L1.db.attachments, L1.next_id, att, path) IN
              [L |-> [Executed(L1) EXCEPT
                         !.db = [@ EXCEPT !.attachments = u.rows],
                         !.next_id = @ + 1,
                         !.cache = Put(@, att.sha256_hash, u.id),
                         !.stats = Bump(@, "attachments_inserted")],
               id |-> Some(u.id)]

\* EDRMLoader.link_attachment_to_message: the loader state afterwards and
\* the Boolean returned
link_attachment_to_message(L, message_id, attachment_id, filename, attachment_order) ==
    LET row == [message_id |-> message_id, attachment_id |-> attachment_id,
                filename |-> filename, attachment_order |-> attachment_order]
        L1 == [L EXCEPT !.calls = Append(@, row)]
    IN  IF Fails(L1)
        THEN [L |-> Executed(L1), ok |-> FALSE]
        ELSE [L |-> [Executed(L1) EXCEPT
                        !.db = [@ EXCEPT !.links = InsertLink(@, row)]],
              ok |-> TRUE]

\* EDRMLoader.update_message_has_attachments: the exception of a failing
\* UPDATE is not caught and leaves load()
update_message_has_attachments(L, message_id) ==
    IF Fails(L)
    THEN [Executed(L) EXCEPT !.crashed = TRUE]
    ELSE [Executed(L) EXCEPT !.db = [@ EXCEPT !.flagged = @ \cup {message_id}]]

\* a loop that stops after the first matching message
LinkAll_first(L, message_ids, attachment_id, filename, order) ==
    IF message_ids = <<>> \/ L.crashed THEN L
    ELSE LET r == link_attachment_to_message(L, Head(message_ids), attachment_id,
                                             filename, order)
         IN  IF r.ok
             THEN update_message_has_attachments(
                      [r.L EXCEPT !.stats = Bump(@, "attachments_linked")],
                      Head(message_ids))
             ELSE r.L

\* lines 310-318: link one attachment to every matching message
RECURSIVE LinkAll(_, _, _, _, _)
LinkAll(L, message_ids, attachment_id, filename, order) ==
    IF message_ids = <<>> \/ L.crashed THEN L
    ELSE LET r == link_attachment_to_message(L, Head(message_ids), attachment_id,
                                             filename, order)
             L1 == IF r.ok
                   THEN update_message_has_attachments(
                            [r.L EXCEPT !.stats = Bump(@, "attachments_linked")],
                            Head(message_ids))
                   ELSE r.L
         IN  LinkAll(L1, Tail(message_ids), attachment_id, filename, order)

\* lines 290-318: the attachments of one email, `order` counting from 1
RECURSIVE ProcessAttachments(_, _, _, _)
ProcessAttachments(L, atts, order, message_ids) ==
    IF atts = <<>> \/ L.crashed THEN L
    ELSE LET att == Head(atts)
             L1 == [L EXCEPT !.stats = Bump(@, "attachments_processed")]
         IN  IF att.sha256_hash = <<>>
             THEN ProcessAttachments(L1, Tail(atts), order + 1, message_ids)
             ELSE LET g == get_or_create_attachment(L1, att) IN
                  IF g.id = None
                  THEN ProcessAttachments(g.L, Tail(atts), order + 1, message_ids)
                  ELSE ProcessAttachments(
                           LinkAll([g.L EXCEPT !.resolved =
                                       @ \cup {[order |-> order, id |-> g.id[1]]}],
                                   message_ids, g.id[1], att.filename, order),
                           Tail(atts), order + 1, message_ids)

\* a commit that, in the failed state, loses the committed rows as well
Commit_drops(L) ==
    IF L.aborted
    THEN [L EXCEPT !.db = [@ EXCEPT !.attachments = {}, !.links = {}],
                   !.committed = [@ EXCEPT !.attachments = {}, !.links = {}],
                   !.aborted = FALSE]
    ELSE [L EXCEPT !.committed = L.db]

\* conn.commit(): in the failed state the server answers with a rollback
Commit(L) ==
    IF L.aborted
    THEN [L EXCEPT !.db = L.committed, !.aborted = FALSE]
    ELSE [L EXCEPT !.committed = L.db]

\* lines 320-323
PeriodicCommit(L) ==
    IF L.stats.emails_processed % CommitInterval = 0 THEN Commit(L) ELSE L

\* an email without match counted as matched
NotFound_as_matched(L) == [L EXCEPT !.stats = Bump(@, "emails_matched")]

\* lines 275-279: no message matches
NotFound(L) == [L EXCEPT !.stats = Bump(@, "emails_not_found")]

\* One iteration of the loop of load() (lines 260-323) for `email`, whose
\* matching messages come back in the order `message_ids`; by_parent is
\* attachments_by_parent.  `matcher` is the result of find_matching_messages.
load_email(L, email, by_parent, matcher, message_ids) ==
    IF ~email.has_attachments THEN L
    ELSE LET L1 == [L EXCEPT !.stats = Bump(@, "emails_processed")] IN
         IF matcher.queries = 1 /\ Fails(L1)
         THEN [Executed(L1) EXCEPT !.crashed = TRUE]
         ELSE LET L2 == IF matcher.queries = 1 THEN Executed(L1) ELSE L1 IN
              IF matcher.ids = {}
              THEN NotFound(L2)
              ELSE LET L3 == [L2 EXCEPT !.stats = Bump(@, "emails_matched")] IN
                   IF by_parent[email.doc_id] = <<>>
                   THEN L3
                   ELSE LET L4 == ProcessAttachments(L3, by_parent[email.doc_id],
                                                     1, message_ids)
                        IN  IF L4.crashed THEN L4 ELSE PeriodicCommit(L4)

(***************************************************************************)
(* Inputs and actions of the loader specification.                         *)
(***************************************************************************)
Docs == {"d1", "d2", "d3", "d4"}

Att(data, filename, extension, source_exists) ==
    [sha256_hash |-> IF data = None THEN <<>> ELSE Sha256(data[1]),
     filename |-> filename, extension |-> extension,
     source_exists |-> source_exists]

P1 == [bytes |-> "p1", size |-> 1]
P3 == [bytes |-> "p3", size |-> MaxAttachmentSize]

\* attachments_by_parent, as built from edrm_attachments.json: d1 carries
\* two attachments, d2 one with the payload of d1's first under another
\* name, d3 one without a digest and one whose extracted file is gone, d4
\* none.
AttachmentsByParent ==
    [d \in Docs |->
        CASE d = "d1" -> <<Att(Some(P1), "a.d", <<".", "d">>, TRUE),
                           Att(Some(P3), "b", <<>>, TRUE)>>
          [] d = "d2" -> <<Att(Some(P1), "c.d", <<".", "d">>, TRUE)>>
          [] d = "d3" -> <<Att(None, "e", <<>>, TRUE),
                           Att(Some(P3), "f.t", <<".", "t">>, FALSE)>>
          [] OTHER -> <<>>]

\* the messages table: two messages of Alice that the subject "X" matches
\* within the window, one of Bob, one of Alice outside the window
LoaderMessages ==
    {[id |-> 1, email |-> Alice, date |-> T, subject |-> <<"x">>],
     [id |-> 2, email |-> AliceUpper, date |-> T + 6,
      subject |-> <<"r", "e", ":", " ", "x">>],
     [id |-> 3, email |-> Bob, date |-> T, subject |-> <<"x">>],
     [id |-> 4, email |-> Alice, date |-> T + 13, subject |-> <<"x">>]}

NamedAlice == <<"N", " ", "<">> \o AliceUpper \o <<">">>

EdrmEmail(doc_id, from_addr, date_sent, subject, has_attachments) ==
    [doc_id |-> doc_id, from_addr |-> from_addr, date_sent |-> date_sent,
     subject |-> subject, has_attachments |-> has_attachments]

\* entries of edrm_emails.json
EdrmEmails ==
    {EdrmEmail(d, NamedAlice, DateIso(T, TRUE), SubjX, TRUE) : d \in Docs}
    \cup {EdrmEmail(d, Bob, DateIso(T, FALSE), RE \o SP \o SubjX, TRUE) : d \in {"d1", "d2"}}
    \cup {EdrmEmail("d1", <<>>, DateIso(T, TRUE), SubjX, TRUE),
          EdrmEmail("d1", SP, DateIso(T, TRUE), SubjX, TRUE),
          EdrmEmail("d1", NamedAlice, DateEmpty, SubjX, TRUE),
          EdrmEmail("d1", NamedAlice, DateBad, SubjX, TRUE),
          EdrmEmail("d1", NamedAlice, DateIso(T, TRUE), <<"y">>, TRUE),
          EdrmEmail("d1", NamedAlice, DateIso(T, TRUE), SubjX, FALSE)}

\* the orders in which a SELECT without ORDER BY may return the ids
Orders(S) ==
    {s \in [1..Cardinality(S) -> S] : \A i, j \in DOMAIN s : i # j => s[i] # s[j]}

\* the statements one email can execute: the SELECT, and per attachment an
\* INSERT, and per message an INSERT and an UPDATE
MaxStatements == 11

LoaderStats0 ==
    [emails_processed |-> 0, emails_matched |-> 0, emails_not_found |-> 0,
     attachments_processed |-> 0, attachments_inserted |-> 0,
     attachments_linked |-> 0, errors |-> 0]

Db0 ==
    [attachments |-> {}, links |-> {}, flagged |-> {},
     people |-> {}, msgs |-> {}, recipients |-> {}, refs |-> {}]

\* emails at the head of the list that carry attachments and no sender:
\* each adds one to emails_processed and to emails_not_found and nothing else
Skipped == {0, CommitInterval - 2, CommitInterval - 1}

\* load_existing_attachments: sha256 -> id of the rows of attachments
ExistingAttachments(rows) ==
    [h \in {r.sha256_hash : r \in rows} |->
        (CHOOSE r \in rows : r.sha256_hash = h).id]

\* A loader process starts (EDRMLoader.__init__ on a new connection) and
\* load() runs up to its loop: the cache is read from the database, and the
\* loop goes through the first n0 emails, which have no sender.
StartLoad(n0) ==
    /\ loader = "load_edrm"
    /\ lpc # "load"
    /\ nload < MaxLoads
    /\ nload' = nload + 1
    /\ lpc' = "load"
    /\ db' = committed
    /\ aborted' = FALSE
    /\ attachment_cache' = ExistingAttachments(committed.attachments)
    /\ lstats' = [LoaderStats0 EXCEPT !.emails_processed = n0,
                                      !.emails_not_found = n0]
    /\ cur' = None
    /\ UNCHANGED <<committed, target_files, next_id, handled, loader, people_cache,
                   bstats, mvars, rvars, evars, pvars, ovars>>

LoaderState(k, client) ==
    [db |-> db, committed |-> committed, aborted |-> aborted,
     cache |-> attachment_cache, stats |-> lstats, files |-> target_files,
     next_id |-> next_id, k |-> k, client |-> client, crashed |-> FALSE,
     calls |-> <<>>, resolved |-> {}, failed |-> FALSE]

\* load() handles the next email of the list; the k-th statement it executes
\* raises (k = 0: none), in the driver if `client`.  An exception that leaves load() ends the process:
\* main() closes the connection and the open transaction is lost.
LoadEmail(email, k, client) ==
    /\ loader = "load_edrm"
    /\ lpc = "load"
    /\ handled < MaxEmails
    /\ \E matcher \in {IF email.has_attachments
                        THEN find_matching_messages(messages, email.subject,
                                 parse_date(email.date_sent),
                                 parse_email_from_string(email.from_addr))
                        ELSE [ids |-> {}, queries |-> 0]} :
         \E message_ids \in Orders(matcher.ids) :
           \E L \in {load_email(LoaderState(k, client), email, AttachmentsByParent,
                                matcher, message_ids)} :
                 /\ db' = IF L.crashed THEN L.committed ELSE L.db
                 /\ committed' = L.committed
                 /\ aborted' = IF L.crashed THEN FALSE ELSE L.aborted
                 /\ attachment_cache' = L.cache
                 /\ lstats' = L.stats
                 /\ target_files' = L.files
                 /\ next_id' = L.next_id
                 /\ lpc' = IF L.crashed THEN "crashed" ELSE "load"
                 /\ cur' = Some([email |-> email, message_ids |-> matcher.ids,
                                 queries |-> matcher.queries, calls |-> L.calls,
                                 resolved |-> L.resolved, failed |-> L.failed,
                                 crashed |-> L.crashed, db0 |-> db])
    /\ handled' = handled + 1
    /\ UNCHANGED <<nload, loader, people_cache, bstats, mvars, rvars, evars, pvars, ovars>>

\* the end of load(): the final commit (line 326)
FinishLoad ==
    /\ loader = "load_edrm"
    /\ lpc = "load"
    /\ LET L == Commit(LoaderState(0, FALSE))
       IN  /\ db' = L.db
           /\ committed' = L.committed
           /\ aborted' = L.aborted
    /\ lpc' = "done"
    /\ UNCHANGED <<attachment_cache, lstats, target_files, next_id, nload, handled,
                   cur, loader, people_cache, bstats, mvars, rvars, evars, pvars, ovars>>

(***************************************************************************)
(* PostgresLoader (load_to_postgres.py).  The helpers work on a record B   *)
(* with the fields of LoaderState and people_cache; k counts down to the   *)
(* statement that raises, `raised` says that an exception is on its way to *)
(* the handler of load_batch.                                              *)
(***************************************************************************)
PostgresStats0 ==
    [people |-> 0, messages |-> 0, recipients |-> 0, references |-> 0,
     batches |-> 0, attachments |-> 0, attachment_refs |-> 0,
     attachments_deduplicated |-> 0]

\* cur.execute raises / returns
Raises(B) == B.k = 1
Ran(B) == [B EXCEPT !.k = IF @ > 0 THEN @ - 1 ELSE 0]
Raise(B) == [B EXCEPT !.raised = TRUE, !.k = 0]

\* PostgresLoader.get_or_create_person: the state afterwards and the
\* Optional id returned
get_or_create_person(B, email, name) ==
    IF email = <<>> THEN [B |-> B, id |-> None]
    ELSE LET e == Strip(Lower(email)) IN
         IF e \in DOMAIN B.people_cache
         THEN [B |-> B, id |-> Some(B.people_cache[e])]
         ELSE IF Raises(B) THEN [B |-> Raise(B), id |-> None]
         ELSE LET B1 == Ran(B) IN
              IF \E r \in B1.db.people : r.email = e
              THEN LET id == (CHOOSE r \in B1.db.people : r.email = e).id
                   IN  [B |-> [B1 EXCEPT !.people_cache = Put(@, e, id)],
                        id |-> Some(id)]
              ELSE IF Raises(B1) THEN [B |-> Raise(B1), id |-> None]
              ELSE [B |-> [Ran(B1) EXCEPT
                              !.db.people = @ \cup {[id |-> B1.next_id, email |-> e,
                                                     name |-> name]},
                              !.next_id = @ + 1,
                              !.stats = Bump(@, "people"),
                              !.people_cache = Put(@, e, B1.next_id)],
                    id |-> Some(B1.next_id)]

\* get_or_create_attachment without the SELECT of lines 141-146
PostgresLoader_get_or_create_attachment_blind(B, attachment_data) ==
    LET sha256_hash == attachment_data.sha256_hash IN
    IF sha256_hash = <<>> THEN [B |-> B, id |-> None]
    ELSE IF sha256_hash \in DOMAIN B.cache
    THEN [B |-> [B EXCEPT !.stats = Bump(@, "attachments_deduplicated")],
          id |-> Some(B.cache[sha256_hash])]
    ELSE IF Raises(B) THEN [B |-> Raise(B), id |-> None]
    ELSE [B |-> [Ran(B) EXCEPT
                    !.db.attachments = @ \cup
                        {[id |-> B.next_id, sha256_hash |-> sha256_hash,
                          original_filename |-> attachment_data.original_filename,
                          storage_path |-> attachment_data.storage_path]},
                    !.next_id = @ + 1,
                    !.stats = Bump(@, "attachments"),
                    !.cache = Put(@, sha256_hash, B.next_id)],
          id |-> Some(B.next_id)]

\* PostgresLoader.get_or_create_attachment: the state afterwards and the
\* Optional id returned
PostgresLoader_get_or_create_attachment(B, attachment_data) ==
    LET sha256_hash == attachment_data.sha256_hash IN
    IF sha256_hash = <<>> THEN [B |-> B, id |-> None]
    ELSE IF sha256_hash \in DOMAIN B.cache
    THEN [B |-> [B EXCEPT !.stats = Bump(@, "attachments_deduplicated")],
          id |-> Some(B.cache[sha256_hash])]
    ELSE IF Raises(B) THEN [B |-> Raise(B), id |-> None]
    ELSE LET B1 == Ran(B) IN
         IF \E r \in B1.db.attachments : r.sha256_hash = sha256_hash
         THEN LET id == (CHOOSE r \in B1.db.attachments :
                             r.sha256_hash = sha256_hash).id
              IN  [B |-> [B1 EXCEPT !.stats = Bump(@, "attachments_deduplicated"),
                                    !.cache = Put(@, sha256_hash, id)],
                   id |-> Some(id)]
         ELSE IF Raises(B1) THEN [B |-> Raise(B1), id |-> None]
         ELSE [B |-> [Ran(B1) EXCEPT
                         !.db.attachments = @ \cup
                             {[id |-> B1.next_id, sha256_hash |-> sha256_hash,
                               original_filename |-> attachment_data.original_filename,
                               storage_path |-> attachment_data.storage_path]},
                         !.next_id = @ + 1,
                         !.stats = Bump(@, "attachments"),
                         !.cache = Put(@, sha256_hash, B1.next_id)],
               id |-> Some(B1.next_id)]

\* a foreign key of the row to insert names no row (the schema is not part
\* of the sources: fk says whether it declares the foreign keys)
Dangling(fk, id, rows) == fk /\ id \notin {r.id : r \in rows}

\* lines 229-272: the to, cc and bcc recipients, in this order
RECURSIVE InsertRecipients(_, _, _, _)
InsertRecipients(B, recipients, message_db_id, fk) ==
    IF recipients = <<>> \/ B.raised THEN B
    ELSE LET p == get_or_create_person(B, Head(recipients).address,
                                       Head(recipients).name)
         IN  IF p.B.raised \/ p.id = None
             THEN InsertRecipients(p.B, Tail(recipients), message_db_id, fk)
             ELSE IF Raises(p.B) \/ Dangling(fk, p.id[1], p.B.db.people)
             THEN Raise(p.B)
             ELSE InsertRecipients(
                      [Ran(p.B) EXCEPT
                          !.db.recipients = @ \cup
                              {[message_id |-> message_db_id, person_id |-> p.id[1],
                                recipient_type |-> Head(recipients).type]},
                          !.stats = Bump(@, "recipients")],
                      Tail(recipients), message_db_id, fk)

\* lines 274-283
RECURSIVE InsertReferences(_, _, _, _)
InsertReferences(B, references, idx, message_db_id) ==
    IF references = <<>> \/ B.raised THEN B
    ELSE IF Raises(B) THEN Raise(B)
    ELSE InsertReferences(
             [Ran(B) EXCEPT
                 !.db.refs = @ \cup {[message_id |-> message_db_id,
                                      referenced_message_id |-> Head(references),
                                      reference_order |-> idx]},
                 !.stats = Bump(@, "references")],
             Tail(references), idx + 1, message_db_id)

\* att_data.get('attachment_order', 0)
OrderOf(att_data) ==
    IF att_data.attachment_order = None THEN 0 ELSE att_data.attachment_order[1]

\* lines 285-319: the attachments of the message and their link rows
RECURSIVE InsertAttachments(_, _, _, _)
InsertAttachments(B, atts, message_db_id, fk) ==
    IF atts = <<>> \/ B.raised THEN B
    ELSE LET g == PostgresLoader_get_or_create_attachment(B, Head(atts)) IN
         IF g.B.raised \/ g.id = None
         THEN InsertAttachments(g.B, Tail(atts), message_db_id, fk)
         ELSE LET row == [message_id |-> message_db_id, attachment_id |-> g.id[1],
                          filename |-> Head(atts).original_filename,
                          attachment_order |-> OrderOf(Head(atts))]
                  B1 == [g.B EXCEPT !.calls = Append(@, row)]
              IN  IF Raises(B1) \/ Dangling(fk, g.id[1], B1.db.attachments)
                  THEN Raise(B1)
                  ELSE InsertAttachments(
                           [Ran(B1) EXCEPT
                               !.db.links = InsertLink(@, row),
                               !.stats = Bump(@, "attachment_refs")],
                           Tail(atts), message_db_id, fk)

\* conn.rollback()
Rollback(B) == [B EXCEPT !.db = B.committed]

\* One iteration of the loop of load_batch (lines 187-329) for email_data.
\* The INSERT of the message raises IntegrityError when its message_id is
\* already in the table.
load_batch_email(B, email_data, fk) ==
    LET p == get_or_create_person(B, email_data.from_address, email_data.from_name)
        message_db_id == p.B.next_id
        B1 == [Ran(p.B) EXCEPT
                  !.db.msgs = @ \cup
                      {[id |-> message_db_id, message_id |-> email_data.message_id,
                        from_person_id |-> p.id,
                        has_attachments |-> Len(email_data.attachments) > 0]},
                  !.next_id = @ + 1,
                  !.message_db_id = Some(message_db_id),
                  !.stats = Bump(@, "messages")]
        B2 == InsertRecipients(B1, email_data.recipients, message_db_id, fk)
        B3 == InsertReferences(B2, email_data.references, 0, message_db_id)
        B4 == InsertAttachments(B3, email_data.attachments, message_db_id, fk)
        R  == IF p.B.raised THEN p.B
              ELSE IF Raises(p.B) THEN Raise(p.B)
              ELSE IF \E r \in p.B.db.msgs : r.message_id = email_data.message_id
                   THEN [Raise(p.B) EXCEPT !.duplicate = TRUE]
                   ELSE IF p.id # None /\ Dangling(fk, p.id[1], p.B.db.people)
                        THEN Raise(p.B)
                        ELSE B4
    IN  IF R.raised THEN Rollback(R) ELSE R

\* the end of load_batch (lines 331-333)
load_batch_end(B) ==
    [B EXCEPT !.committed = B.db, !.stats = Bump(@, "batches")]

(***************************************************************************)
(* Inputs and actions of PostgresLoader.                                   *)
(***************************************************************************)
AttData(data, original_filename, attachment_order) ==
    [sha256_hash |-> IF data = None THEN <<>> ELSE Sha256(data[1]),
     original_filename |-> original_filename,
     storage_path |-> IF data = None THEN <<>>
                      ELSE parser_get_storage_path(Sha256(data[1])),
     attachment_order |-> attachment_order]

Recipient(address, type) == [address |-> address, name |-> <<>>, type |-> type]

\* entries of the emails_batch_*.json files: m1 carries the same payload
\* twice without attachment_order, m2 two payloads with orders 1 and 2 and
\* the sender of m1 in another spelling; the third entry repeats the
\* message_id m1; m3 has no sender and an attachment without digest
BatchEmails ==
    {[message_id |-> "m1", from_address |-> Alice, from_name |-> <<"N">>,
      recipients |-> <<Recipient(Bob, "to"), Recipient(Bob, "to"),
                       Recipient(<<>>, "cc")>>,
      references |-> <<>>,
      attachments |-> <<AttData(Some(P1), "a.d", None),
                        AttData(Some(P1), "c.d", None)>>],
     [message_id |-> "m2", from_address |-> AliceUpper \o SP, from_name |-> <<>>,
      recipients |-> <<Recipient(Alice, "bcc")>>,
      references |-> <<"m1">>,
      attachments |-> <<AttData(Some(P1), "a.d", Some(1)),
                        AttData(Some(P3), "b", Some(2))>>],
     [message_id |-> "m1", from_address |-> Bob, from_name |-> <<>>,
      recipients |-> <<>>, references |-> <<>>, attachments |-> <<>>],
     [message_id |-> "m3", from_address |-> <<>>, from_name |-> <<>>,
      recipients |-> <<>>, references |-> <<>>,
      attachments |-> <<AttData(None, "e", Some(1))>>]}

\* main(): a PostgresLoader is made and connects
Connect ==
    /\ loader = "load_postgres"
    /\ lpc # "load"
    /\ nload < MaxLoads
    /\ nload' = nload + 1
    /\ lpc' = "between"
    /\ db' = committed
    /\ aborted' = FALSE
    /\ attachment_cache' = <<>>
    /\ people_cache' = <<>>
    /\ bstats' = PostgresStats0
    /\ cur' = None
    /\ UNCHANGED <<committed, lstats, target_files, next_id, handled, loader,
                   mvars, rvars, evars, pvars, ovars>>

BatchState(k) ==
    [db |-> db, committed |-> committed, cache |-> attachment_cache,
     people_cache |-> people_cache, stats |-> bstats, next_id |-> next_id,
     k |-> k, raised |-> FALSE, duplicate |-> FALSE, calls |-> <<>>,
     message_db_id |-> None]

\* load_batch handles the next entry of the batch file; the k-th statement
\* it executes raises (k = 0: none)
LoadBatchEmail(email_data, k, fk) ==
    /\ loader = "load_postgres"
    /\ lpc \in {"between", "load"}
    /\ handled < MaxEmails
    /\ \E B \in {load_batch_email(BatchState(k), email_data, fk)} :
          /\ db' = B.db
          /\ attachment_cache' = B.cache
          /\ people_cache' = B.people_cache
          /\ bstats' = B.stats
          /\ next_id' = B.next_id
          /\ cur' = Some([email |-> email_data, calls |-> B.calls,
                          raised |-> B.raised, duplicate |-> B.duplicate,
                          message_db_id |-> B.message_db_id])
    /\ lpc' = "load"
    /\ handled' = handled + 1
    /\ UNCHANGED <<committed, aborted, lstats, target_files, nload, loader,
                   mvars, rvars, evars, pvars, ovars>>

\* load_batch reaches the end of the batch file
LoadBatchEnd ==
    /\ loader = "load_postgres"
    /\ lpc = "load"
    /\ \E B \in {load_batch_end(BatchState(0))} :
          /\ committed' = B.committed
          /\ bstats' = B.stats
    /\ lpc' = "between"
    /\ UNCHANGED <<db, aborted, attachment_cache, people_cache, lstats, target_files,
                   next_id, nload, handled, cur, loader, mvars, rvars, evars, pvars, ovars>>

LNext ==
    \/ \E n0 \in Skipped : StartLoad(n0)
    \/ \E e \in EdrmEmails, k \in 0..MaxStatements :
           \E client \in IF k = 0 THEN {FALSE} ELSE BOOLEAN : LoadEmail(e, k, client)
    \/ FinishLoad
    \/ Connect
    \/ \E e \in BatchEmails, k \in 0..MaxStatements, fk \in BOOLEAN :
           LoadBatchEmail(e, k, fk)
    \/ LoadBatchEnd


(***************************************************************************)
(* process_all_edrm.py.  A unit is a ZIP file; unit k stands for the k-th  *)
(* file name in sorted order.                                              *)
(***************************************************************************)
Units == 1..MaxZips

\* sorted(...) of a set of units
RECURSIVE Sorted(_)
Sorted(S) ==
    IF S = {} THEN <<>>
    ELSE LET m == CHOOSE x \in S : \A y \in S : x <= y
         IN  <<m>> \o Sorted(S \ {m})

Range(s) == {s[i] : i \in DOMAIN s}

\* get_processed_files: the names in processed_zips.json
get_processed_files(file) == file

\* a save_processed_files that leaves processed_zips.json as it was
save_processed_files_nothing(file, names) == file

\* a save_processed_files that records every unit
save_processed_files_all(file, names) == Units

\* save_processed_files: processed_zips.json is rewritten with `processed`
save_processed_files(file, names) == names

\* the ledger is read also with --force
InitialProcessed_unforced(force, file) == get_processed_files(file)

\* lines 116-121
InitialProcessed(force, file) == IF force THEN {} ELSE get_processed_files(file)

\* line 124
ToProcess(files, done) == SelectSeq(Sorted(files), LAMBDA f : f \notin done)

\* a batch count that rounds down
TotalBatches_floor(n, batch_size) == n \div batch_size

\* line 132
TotalBatches(n, batch_size) == (n + batch_size - 1) \div batch_size

Min(a, b) == IF a <= b THEN a ELSE b

\* lines 135-137: to_process[start_idx:end_idx] of batch number b
BatchOf(list, b, batch_size) ==
    SubSeq(list, b * batch_size + 1, Min(b * batch_size + batch_size, Len(list)))

Run0 ==
    [n |-> 0, force |-> FALSE, batch_size |-> 1, dispatched |-> <<>>,
     loaded |-> {}, ledger0 |-> {}, rows0 |-> {}, all_ok |-> TRUE,
     prev_all_ok |-> FALSE, prev_dispatched |-> <<>>, succeeded |-> {},
     exit |-> None]

\* main() up to the batch loop (lines 104-132)
StartRun(force, batch_size) ==
    /\ ppc \in {"start", "done"}
    /\ run.n < MaxPipeRuns
    /\ LET done == InitialProcessed(force, ledger)
           list == ToProcess(zip_files, done)
       IN  /\ processed' = IF zip_files = {} THEN processed ELSE done
           /\ to_process' = IF zip_files = {} THEN <<>> ELSE list
           /\ ppc' = IF zip_files = {} \/ list = <<>> THEN "done" ELSE "batches"
    /\ batch_num' = 0
    /\ run' = [n |-> run.n + 1, force |-> force, batch_size |-> batch_size,
               dispatched |-> <<>>, loaded |-> {}, ledger0 |-> ledger,
               rows0 |-> loaded_rows, all_ok |-> TRUE,
               prev_all_ok |-> run.n >= 1 /\ run.all_ok,
               prev_dispatched |-> run.dispatched, succeeded |-> {},
               exit |-> IF zip_files = {}
                           \/ ToProcess(zip_files, InitialProcessed(force, ledger)) = <<>>
                        THEN Some(0) ELSE None]
    /\ UNCHANGED <<ledger, zip_files, loaded_rows, mvars, rvars, evars, pvars, lvars>>

\* One iteration of the batch loop (lines 134-159).  extract_ok and load_ok
\* are the exit statuses of the two subprocesses; a loader that fails may
\* have committed the rows of the units in `partial`.
Batch(extract_ok, load_ok, partial) ==
    /\ ppc = "batches"
    /\ LET batch == BatchOf(to_process, batch_num, run.batch_size)
           ok == extract_ok /\ load_ok
       IN  /\ partial \subseteq Range(batch)
           /\ ~extract_ok => (load_ok /\ partial = {})
           /\ (load_ok /\ extract_ok) => partial = Range(batch)
           /\ processed' = IF ok THEN processed \cup Range(batch) ELSE processed
           /\ ledger' = IF ok
                        THEN save_processed_files(ledger, processed \cup Range(batch))
                        ELSE ledger
           /\ loaded_rows' = IF extract_ok THEN loaded_rows \cup partial ELSE loaded_rows
           /\ run' = [run EXCEPT
                         !.dispatched = @ \o batch,
                         !.loaded = IF extract_ok THEN @ \cup Range(batch) ELSE @,
                         !.all_ok = @ /\ ok,
                         !.succeeded = IF ok THEN @ \cup Range(batch) ELSE @,
                         !.exit = IF batch_num + 1 >=
                                       TotalBatches(Len(to_process), run.batch_size)
                                  THEN Some(0) ELSE None]
    /\ batch_num' = batch_num + 1
    /\ ppc' = IF batch_num + 1 >= TotalBatches(Len(to_process), run.batch_size)
              THEN "done" ELSE "batches"
    /\ UNCHANGED <<to_process, zip_files, mvars, rvars, evars, pvars, lvars>>

ONext ==
    \/ \E force \in BOOLEAN, b \in 1..MaxBatchSize : StartRun(force, b)
    \/ \E x, l \in BOOLEAN, part \in SUBSET Units : Batch(x, l, part)

(***************************************************************************)
(* Two loader processes on one database.  Each has its own connection and  *)
(* transaction and its own empty caches; the units they load carry one     *)
(* attachment.  workers[p] is the process p:                               *)
(*   pc       "idle", "select" (the cache had no entry), "insert" (the     *)
(*            presence check found no row), "linked", and after the unit   *)
(*            "done" or "failed"                                           *)
(*   sha      the digest of the attachment of its unit                     *)
(*   pending  the attachments rows of its open transaction                 *)
(*   message  its unit has written rows other than the attachments row     *)
(*            that are pending in the open transaction                     *)
(*   id       the Optional id get_or_create_attachment returned            *)
(*   raced    the other process was past its presence check for the same   *)
(*            digest, and had not inserted, when this one passed its own   *)
(*   units    units taken so far                                           *)
(***************************************************************************)
\* the rows of attachments with the digest h
RowsOf(rows, h) == {r \in rows : r.sha256_hash = h}

Workers == {1, 2}
MaxUnits == 2       \* units each of the two processes loads

Worker0 ==
    [pc |-> "idle", sha |-> <<>>, pending |-> {}, message |-> FALSE, id |-> None,
     raced |-> FALSE, units |-> 0]

Other(p) == CHOOSE o \in Workers : o # p

\* digests of the attachments the two processes load
RaceDigests == {Sha256(P1), Sha256(P3)}

\* the rows the statements of p see: READ COMMITTED, and its own writes
Visible(p) == committed.attachments \cup workers[p].pending

\* an INSERT of the digest has to wait for the transaction of `o`, which
\* holds an uncommitted row with the same sha256_hash under the unique index
Blocked(o, h) == \E r \in workers[o].pending : r.sha256_hash = h

\* load_batch takes a unit: the message row is inserted (EDRMLoader: the
\* unit is matched) and get_or_create_attachment finds no cache entry
WorkerBegin(p, h) ==
    /\ loader \in {"load_edrm", "load_postgres"} /\ lpc = "race"
    /\ workers[p].pc \in {"idle", "done", "failed"}
    /\ workers[p].units < MaxUnits
    /\ workers' = [workers EXCEPT ![p] =
                      [@ EXCEPT !.pc = IF loader = "load_postgres"
                                       THEN "select" ELSE "insert",
                                !.sha = h, !.id = None,
                                !.message = loader = "load_postgres",
                                !.raced = loader = "load_edrm"
                                          /\ workers[Other(p)].pc = "insert"
                                          /\ workers[Other(p)].sha = h,
                                !.units = @ + 1]]
    /\ UNCHANGED <<db, committed, aborted, attachment_cache, lstats, target_files,
                   next_id, lpc, nload, handled, cur, loader, people_cache, bstats,
                   mvars, evars, pvars, ovars>>

\* PostgresLoader.get_or_create_attachment, lines 141-148: the SELECT
WorkerSelect(p) ==
    /\ loader = "load_postgres" /\ lpc = "race"
    /\ workers[p].pc = "select"
    /\ LET w == workers[p]
           found == RowsOf(Visible(p), w.sha)
       IN  workers' = [workers EXCEPT ![p] =
               IF found # {}
               THEN [w EXCEPT !.pc = "linked",
                              !.id = Some((CHOOSE r \in found : TRUE).id)]
               ELSE [w EXCEPT !.pc = "insert",
                              !.raced = workers[Other(p)].pc = "insert"
                                        /\ workers[Other(p)].sha = w.sha]]
    /\ UNCHANGED <<db, committed, aborted, attachment_cache, lstats, target_files,
                   next_id, lpc, nload, handled, cur, loader, people_cache, bstats,
                   mvars, evars, pvars, ovars>>

\* The INSERT of PostgresLoader.get_or_create_attachment (lines 150-166) has
\* no ON CONFLICT clause; the one of EDRMLoader (lines 191-196) has
InsertAttachment_upserts(p) == loader = "load_edrm"

\* The INSERT into attachments of process p, once no other transaction
\* holds an uncommitted row of the digest.  A committed row of the digest
\* makes the plain INSERT raise a unique violation, which load_batch
\* answers with conn.rollback() (lines 321-329): the unit is skipped and
\* the open transaction is gone.  The upsert returns the id of that row.
WorkerInsert(p) ==
    /\ loader \in {"load_edrm", "load_postgres"} /\ lpc = "race"
    /\ workers[p].pc = "insert"
    /\ ~Blocked(Other(p), workers[p].sha)
    /\ LET w == workers[p]
           found == RowsOf(Visible(p), w.sha)
       IN  IF found # {}
           THEN /\ workers' = [workers EXCEPT ![p] =
                       IF InsertAttachment_upserts(p)
                       THEN [w EXCEPT !.pc = "linked",
                                      !.id = Some((CHOOSE r \in found : TRUE).id)]
                       ELSE [w EXCEPT !.pc = "failed", !.pending = {},
                                      !.message = FALSE]]
                /\ next_id' = next_id + 1
           ELSE /\ workers' = [workers EXCEPT ![p] =
                       [w EXCEPT !.pc = "linked", !.id = Some(next_id),
                                 !.pending = @ \cup
                                     {[id |-> next_id, sha256_hash |-> w.sha,
                                       original_filename |-> "a.d",
                                       storage_path |-> parser_get_storage_path(w.sha)]}]]
                /\ next_id' = next_id + 1
    /\ UNCHANGED <<db, committed, aborted, attachment_cache, lstats, target_files,
                   lpc, nload, handled, cur, loader, people_cache, bstats,
                   mvars, evars, pvars, ovars>>

\* the link is inserted and the transaction commits (load_batch line 332,
\* EDRMLoader.load lines 321 and 326)
WorkerCommit(p) ==
    /\ loader \in {"load_edrm", "load_postgres"} /\ lpc = "race"
    /\ workers[p].pc = "linked"
    /\ committed' = [committed EXCEPT
                        !.attachments = @ \cup workers[p].pending,
                        !.links = @ \cup {[message_id |-> 10 * p + workers[p].units,
                                           attachment_id |-> workers[p].id[1],
                                           filename |-> "a.d",
                                           attachment_order |-> 0]}]
    /\ workers' = [workers EXCEPT ![p] =
                      [@ EXCEPT !.pc = "done", !.pending = {}, !.message = FALSE]]
    /\ UNCHANGED <<db, aborted, attachment_cache, lstats, target_files, next_id,
                   lpc, nload, handled, cur, loader, people_cache, bstats,
                   mvars, evars, pvars, ovars>>

RNext ==
    \/ \E p \in Workers, h \in RaceDigests : WorkerBegin(p, h)
    \/ \E p \in Workers : WorkerSelect(p)
    \/ \E p \in Workers : WorkerInsert(p)
    \/ \E p \in Workers : WorkerCommit(p)

(***************************************************************************)
(* Specifications.  Each one runs one program; the state of the others     *)
(* stays as it is at the start.                                            *)
(***************************************************************************)
InitMatch ==
    /\ messages \in Stores
    /\ q = None /\ matched = {} /\ executed = 0
    /\ tool = "none" /\ hash_cache = <<>> /\ attachment_hashes = {} /\ blobs = {}
    /\ stats = ExtractorStats0 /\ pstats = ParserStats0 /\ attachments = <<>>
    /\ putLog = PutLog0 /\ stored = {} /\ nrun = 1 /\ last_put = None
    /\ zf = Zf0 /\ workers = [p \in Workers |-> Worker0]
    /\ db = Db0 /\ committed = Db0 /\ aborted = FALSE /\ attachment_cache = <<>>
    /\ lstats = LoaderStats0 /\ target_files = {} /\ next_id = 1 /\ lpc = "start"
    /\ nload = 0 /\ handled = 0 /\ cur = None
    /\ loader = "none" /\ people_cache = <<>> /\ bstats = PostgresStats0
    /\ ledger = {} /\ processed = {} /\ to_process = <<>> /\ batch_num = 0
    /\ ppc = "start" /\ zip_files = {} /\ loaded_rows = {} /\ run = Run0

InitCAS ==
    /\ messages = {}
    /\ q = None /\ matched = {} /\ executed = 0
    /\ tool \in {"extract_edrm", "extract_emails"}
    /\ hash_cache = <<>> /\ attachment_hashes = {} /\ blobs = {}
    /\ stats = ExtractorStats0 /\ pstats = ParserStats0 /\ attachments = <<>>
    /\ putLog = PutLog0 /\ stored = {} /\ nrun = 1 /\ last_put = None
    /\ zf = Zf0 /\ workers = [p \in Workers |-> Worker0]
    /\ db = Db0 /\ committed = Db0 /\ aborted = FALSE /\ attachment_cache = <<>>
    /\ lstats = LoaderStats0 /\ target_files = {} /\ next_id = 1 /\ lpc = "start"
    /\ nload = 0 /\ handled = 0 /\ cur = None
    /\ loader = "none" /\ people_cache = <<>> /\ bstats = PostgresStats0
    /\ ledger = {} /\ processed = {} /\ to_process = <<>> /\ batch_num = 0
    /\ ppc = "start" /\ zip_files = {} /\ loaded_rows = {} /\ run = Run0

InitZip ==
    /\ messages = {}
    /\ q = None /\ matched = {} /\ executed = 0
    /\ tool = "process_zip"
    /\ hash_cache = <<>> /\ attachment_hashes = {} /\ blobs = {}
    /\ stats = ExtractorStats0 /\ pstats = ParserStats0 /\ attachments = <<>>
    /\ putLog = PutLog0 /\ stored = {} /\ nrun = 1 /\ last_put = None
    /\ zf = Zf0 /\ workers = [p \in Workers |-> Worker0]
    /\ db = Db0 /\ committed = Db0 /\ aborted = FALSE /\ attachment_cache = <<>>
    /\ lstats = LoaderStats0 /\ target_files = {} /\ next_id = 1 /\ lpc = "start"
    /\ nload = 0 /\ handled = 0 /\ cur = None
    /\ loader = "none" /\ people_cache = <<>> /\ bstats = PostgresStats0
    /\ ledger = {} /\ processed = {} /\ to_process = <<>> /\ batch_num = 0
    /\ ppc = "start" /\ zip_files = {} /\ loaded_rows = {} /\ run = Run0

InitLoad ==
    /\ messages = LoaderMessages
    /\ q = None /\ matched = {} /\ executed = 0
    /\ tool = "none" /\ hash_cache = <<>> /\ attachment_hashes = {} /\ blobs = {}
    /\ stats = ExtractorStats0 /\ pstats = ParserStats0 /\ attachments = <<>>
    /\ putLog = PutLog0 /\ stored = {} /\ nrun = 1 /\ last_put = None
    /\ zf = Zf0 /\ workers = [p \in Workers |-> Worker0]
    /\ db = Db0 /\ committed = Db0 /\ aborted = FALSE /\ attachment_cache = <<>>
    /\ lstats = LoaderStats0 /\ target_files = {} /\ next_id = 1 /\ lpc = "start"
    /\ nload = 0 /\ handled = 0 /\ cur = None
    /\ loader \in {"load_edrm", "load_postgres"} /\ people_cache = <<>> /\ bstats = PostgresStats0
    /\ ledger = {} /\ processed = {} /\ to_process = <<>> /\ batch_num = 0
    /\ ppc = "start" /\ zip_files = {} /\ loaded_rows = {} /\ run = Run0

InitRace ==
    /\ messages = {}
    /\ q = None /\ matched = {} /\ executed = 0
    /\ tool = "none" /\ hash_cache = <<>> /\ attachment_hashes = {} /\ blobs = {}
    /\ stats = ExtractorStats0 /\ pstats = ParserStats0 /\ attachments = <<>>
    /\ putLog = PutLog0 /\ stored = {} /\ nrun = 1 /\ last_put = None
    /\ zf = Zf0 /\ workers = [p \in Workers |-> Worker0]
    /\ db = Db0 /\ committed = Db0 /\ aborted = FALSE /\ attachment_cache = <<>>
    /\ lstats = LoaderStats0 /\ target_files = {} /\ next_id = 1 /\ lpc = "race"
    /\ nload = 0 /\ handled = 0 /\ cur = None
    /\ loader \in {"load_edrm", "load_postgres"} /\ people_cache = <<>> /\ bstats = PostgresStats0
    /\ ledger = {} /\ processed = {} /\ to_process = <<>> /\ batch_num = 0
    /\ ppc = "start" /\ zip_files = {} /\ loaded_rows = {} /\ run = Run0

InitStore ==
    /\ messages = LoaderMessages
    /\ q = None /\ matched = {} /\ executed = 0
    /\ hash_cache = <<>> /\ attachment_hashes = {} /\ blobs = {}
    /\ stats = ExtractorStats0 /\ pstats = ParserStats0 /\ attachments = <<>>
    /\ putLog = PutLog0 /\ stored = {} /\ nrun = 1 /\ last_put = None
    /\ zf = Zf0 /\ workers = [p \in Workers |-> Worker0]
    /\ db = Db0 /\ committed = Db0 /\ aborted = FALSE /\ attachment_cache = <<>>
    /\ lstats = LoaderStats0 /\ target_files = {} /\ next_id = 1 /\ lpc = "start"
    /\ nload = 0 /\ handled = 0 /\ cur = None
    /\ (\E script \in {<<"extract_edrm", "none">>, <<"extract_emails", "none">>,
                       <<"none", "load_edrm">>, <<"none", "load_postgres">>} :
           tool = script[1] /\ loader = script[2])
    /\ people_cache = <<>> /\ bstats = PostgresStats0
    /\ ledger = {} /\ processed = {} /\ to_process = <<>> /\ batch_num = 0
    /\ ppc = "start" /\ zip_files = {} /\ loaded_rows = {} /\ run = Run0

InitPipe ==
    /\ messages = {}
    /\ q = None /\ matched = {} /\ executed = 0
    /\ tool = "none" /\ hash_cache = <<>> /\ attachment_hashes = {} /\ blobs = {}
    /\ stats = ExtractorStats0 /\ pstats = ParserStats0 /\ attachments = <<>>
    /\ putLog = PutLog0 /\ stored = {} /\ nrun = 1 /\ last_put = None
    /\ zf = Zf0 /\ workers = [p \in Workers |-> Worker0]
    /\ db = Db0 /\ committed = Db0 /\ aborted = FALSE /\ attachment_cache = <<>>
    /\ lstats = LoaderStats0 /\ target_files = {} /\ next_id = 1 /\ lpc = "start"
    /\ nload = 0 /\ handled = 0 /\ cur = None
    /\ loader = "none" /\ people_cache = <<>> /\ bstats = PostgresStats0
    /\ ledger \in SUBSET Units /\ processed = {} /\ to_process = <<>> /\ batch_num = 0
    /\ ppc = "start" /\ zip_files \in SUBSET Units /\ loaded_rows = {} /\ run = Run0

SpecMatch == InitMatch /\ [][MNext]_vars

SpecCAS == InitCAS /\ [][ENext]_vars

SpecZip == InitZip /\ [][ZNext]_vars

SpecLoad == InitLoad /\ [][LNext]_vars

SpecPipe == InitPipe /\ [][ONext]_vars

\* two loader processes of the same script load at the same time
SpecRace == InitRace /\ [][RNext]_vars

\* the stores of the digests: one of the extractors or one of the loaders
SpecStore == InitStore /\ [][ENext \/ LNext]_vars


(***************************************************************************)
(* Claims about the attachment stores (SpecCAS).                           *)
(***************************************************************************)

\* the digest index and the counters of the script that runs
Index == IF tool = "extract_edrm" THEN DOMAIN hash_cache ELSE attachment_hashes
Extracted ==
    IF tool = "extract_edrm" THEN stats.attachments_extracted
    ELSE pstats.attachments_extracted
Deduplicated ==
    IF tool = "extract_edrm" THEN stats.attachments_deduplicated
    ELSE pstats.attachments_deduplicated

\* no file is on disk but the files the successful puts name
OnlyStoredFiles == \A f \in blobs : \E s \in stored : s.storage_path = f

\* C1: a payload within the size limit that has been stored, once or
\* several times, in one run or in successive runs over the same output
\* directory and with any extension, always got the same digest, and
\* exactly one blob file on disk holds that digest.
C1_OneBlobPerDigest ==
    OnlyStoredFiles =>
        \A s \in stored :
            /\ \A s2 \in stored : s2.bytes = s.bytes => s2.sha256_hash = s.sha256_hash
            /\ Cardinality(BlobsOf(blobs, s.sha256_hash)) = 1

QFrom == parse_email_from_string(q[1].from_addr)
QDate == parse_date(q[1].date_sent)
Looked == q # None
LookedWithKey == q # None /\ QFrom # None /\ QDate # None /\ QFrom[1] # <<>>

C6_SubjectLiteralMatch ==
    LookedWithKey =>
        \A m \in messages :
            (SenderMatches(m, QFrom[1]) /\ InWindow(m, QDate[1])) =>
                (m.id \in matched <=>
                    \/ Lower(m.subject) = Lower(q[1].subject)
                    \/ Contains(Lower(m.subject), normalize_subject(q[1].subject)))

\* C7: the normalized subject never begins with re:, fw: or fwd:, and
\* 'Re: Re: FW: X' normalizes to what 'X' normalizes to.
C7_AllMarkersStripped ==
    Looked =>
        LET n == normalize_subject(q[1].subject)
        IN  /\ ~HasPrefix(n, <<"r", "e", ":">>)
            /\ ~HasPrefix(n, <<"f", "w", ":">>)
            /\ ~HasPrefix(n, <<"f", "w", "d", ":">>)
            /\ q[1].subject = ReReFwX => n = normalize_subject(SubjX)


(***************************************************************************)
(* Claims about the loaders (SpecLoad).                                    *)
(***************************************************************************)
Triple(r) == <<r.message_id, r.attachment_id, r.attachment_order>>

UniqueTriples(links) ==
    \A r1, r2 \in links : Triple(r1) = Triple(r2) => r1 = r2

\* the link rows for which the email handled last executed an INSERT
CallRows == IF cur = None THEN {} ELSE {cur[1].calls[i] : i \in DOMAIN cur[1].calls}

\* a step of either loader keeps every row whose triple it links again, and
\* the rows it adds are rows it inserted for triples that were not there
RelinkAddsNothing ==
    /\ \A r \in db'.links, r0 \in db.links : Triple(r) = Triple(r0) => r = r0
    /\ handled' = handled + 1 =>
          \A r \in db'.links \ db.links :
              /\ r \in CallRows'
              /\ \A r0 \in db.links : Triple(r0) # Triple(r)

\* C4: in every state no two rows of message_attachments, in the open
\* transaction or committed, share (message_id, attachment_id,
\* attachment_order); a link insert of EDRMLoader or of
\* PostgresLoader.load_batch for a triple that is already there, in the same
\* run or in a later run of the loader, adds no row and changes none.
C4_LinkTripleUnique ==
    /\ [](UniqueTriples(db.links) /\ UniqueTriples(committed.links))
    /\ [][RelinkAddsNothing]_vars

\* C4 witness: in a second run of EDRMLoader a link was inserted for a
\* triple that already had a row, with another filename
C4_RelinkedInSecondRun ==
    /\ loader = "load_edrm" /\ nload = 2
    /\ \E c \in CallRows, r \in db.links :
          Triple(c) = Triple(r) /\ c.filename # r.filename

\* the same case in load_batch: two attachments of one message with the
\* same payload and order
RelinkedInLoadBatch ==
    /\ loader = "load_postgres"
    /\ \E c \in CallRows, r \in db.links :
          Triple(c) = Triple(r) /\ c.filename # r.filename


\* the email EDRMLoader.load handled last carried attachments
Handled == cur # None /\ loader = "load_edrm" /\ cur[1].email.has_attachments

\* its sender address or its sent time is absent
KeyAbsent(email) ==
    \/ parse_date(email.date_sent) = None
    \/ parse_email_from_string(email.from_addr) = None
    \/ parse_email_from_string(email.from_addr) = Some(<<>>)

\* load() has just handled an email with attachments
HandledStep == handled' = handled + 1 /\ Handled'

\* C8: for an email whose sender address or sent time is absent,
\* find_matching_messages returns the empty list and runs no query, and
\* load() inserts no link for it and leaves the database as it was.
C8_AbsentKeyNoLookup ==
    /\ [](Handled /\ KeyAbsent(cur[1].email) =>
              /\ cur[1].message_ids = {}
              /\ cur[1].queries = 0
              /\ cur[1].calls = <<>>
              /\ ~cur[1].crashed)
    /\ [][HandledStep /\ KeyAbsent(cur'[1].email) =>
              db' = db /\ committed' = committed]_vars

\* C8 witness: load() handled an email with attachments whose from_addr is
\* blank, after an email that was linked
C8_BlankSenderHandled ==
    /\ Handled
    /\ cur[1].email.from_addr = SP
    /\ cur[1].queries = 0
    /\ db.links # {}

Linked(m, a) ==
    \E r \in db.links : /\ r.message_id = m
                        /\ r.attachment_id = a.id
                        /\ r.attachment_order = a.order

C10_NoMatchCountedOnly ==
    [][(HandledStep /\ ~cur'[1].crashed /\ cur'[1].message_ids = {}) =>
          /\ lstats' = [lstats EXCEPT !.emails_processed = @ + 1,
                                      !.emails_not_found = @ + 1]
          /\ cur'[1].calls = <<>>
          /\ db' = db /\ committed' = committed
          /\ lpc' = "load"]_vars

\* C10 witness: the matcher ran for an email and found nothing, after an
\* email that was linked, and load() is still in its loop
C10_UnmatchedHandled ==
    /\ Handled /\ ~cur[1].crashed
    /\ cur[1].queries = 1 /\ cur[1].message_ids = {}
    /\ lstats.emails_not_found = 1 /\ lstats.emails_matched = 1
    /\ db.links # {}
    /\ lpc = "load"


(***************************************************************************)
(* Claims about skipped attachments (SpecCAS).                             *)
(***************************************************************************)
Oversize == {d \in Payloads : d.size > MaxAttachmentSize}

TooLargeCount ==
    IF tool = "extract_edrm" THEN stats.attachments_too_large
    ELSE pstats.attachments_skipped_size

ErrorCount ==
    IF tool = "extract_edrm" THEN stats.errors ELSE pstats.attachment_errors

\* the store has just been called with `member`
PutStep == last_put' # None /\ Calls(putLog') = Calls(putLog) + 1

\* the loop over the attachments of the unit can take its next attachment
NextAttachmentTaken ==
    ENABLED (\/ \E x \in Extensions, m \in Members : ExtractAttachment(x, m)
             \/ \E m \in Members : ParsePart(m))

\* C11: a payload that was read and is larger than the maximum size is
\* never written to the blob store and never entered in the digest index
\* or the results; the call adds one to the too-large counter and changes no
\* other counter, no file and no index entry; the loop then goes on with the
\* next attachment of the unit.
C11_OversizeSkippedAndCounted ==
    /\ [](\A d \in Oversize :
              /\ Sha256(d) \notin Index
              /\ BlobsOf(blobs, Sha256(d)) = {}
              /\ \A i \in DOMAIN attachments : attachments[i].sha256_hash # Sha256(d))
    /\ [][(PutStep /\ last_put'[1].member.found
                   /\ last_put'[1].member.io # "read_error"
                   /\ last_put'[1].member.data \in Oversize) =>
              /\ TooLargeCount' = TooLargeCount + 1
              /\ ErrorCount' = ErrorCount
              /\ Extracted' = Extracted /\ Deduplicated' = Deduplicated
              /\ blobs' = blobs /\ Index' = Index
              /\ attachments' = attachments
              /\ ~last_put'[1].ok]_vars
    /\ []((last_put # None /\ last_put[1].outcome = "too_large"
              /\ Calls(putLog) < MaxPuts) => NextAttachmentTaken)

\* C11 witness: an oversize payload was skipped and a sibling attachment
\* was stored in the same run
C11_OversizeThenSibling ==
    /\ last_put # None /\ last_put[1].outcome = "extracted"
    /\ \E d \in Oversize : putLog[d.bytes].other = 1
    /\ TooLargeCount = 1 /\ ErrorCount = 0
    /\ Extracted = 1


(***************************************************************************)
(* Claims about failures and commits of the loaders (SpecLoad).            *)
(***************************************************************************)
Tables == {"attachments", "links", "flagged", "people", "msgs", "recipients", "refs"}

\* C12: no step of a loader, and so no failing statement, rollback or
\* crash, removes or alters a committed row: every row of the committed
\* store is in the committed store after the step, and is in the store as
\* the open transaction sees it.
C12_CommittedRowsStay ==
    /\ [][\A t \in Tables : committed[t] \subseteq committed'[t]]_vars
    /\ [](\A t \in Tables : committed[t] \subseteq db[t])

\* C12 witness: in one run of EDRMLoader a statement failed for an email
\* handled after the periodic commit had committed link rows
C12_FailureAfterPeriodicCommit ==
    /\ Handled /\ cur[1].failed
    /\ nload = 1
    /\ committed.links # {}


\* load_batch has just handled an entry of the batch file
BatchStep == handled' = handled + 1 /\ loader = "load_postgres"

ErrorsCounted == lstats.errors

\* C13: a step in which an INSERT hits a unique constraint and nothing else
\* fails (load_batch inserts a message whose message_id is in the table;
\* EDRMLoader inserts a link whose triple is in the table) keeps every
\* committed row and every pending row, counts no error and stays in the
\* loop.
C13_DuplicateIsNoOp ==
    [][(\/ BatchStep /\ cur'[1].duplicate
        \/ HandledStep /\ ~cur'[1].failed
              /\ \E c \in CallRows', r \in db.links : Triple(c) = Triple(r)) =>
           /\ \A t \in Tables : db[t] \subseteq db'[t]
           /\ \A t \in Tables : committed[t] \subseteq committed'[t]
           /\ ErrorsCounted' = ErrorsCounted
           /\ lpc' = "load"]_vars


\* C14: when the first run of EDRMLoader over a database fails (load() is
\* left by an exception and the process exits with an error), none of the
\* writes of that run is committed.
C14_FailedLoadCommitsNothing ==
    (loader = "load_edrm" /\ lpc = "crashed" /\ nload = 1) => committed = Db0


(***************************************************************************)
(* Claims about the ledger and the dispatch of the batch driver (SpecPipe).*)
(***************************************************************************)

\* C15: the persisted ledger changes only in a step in which a batch of
\* the run succeeded in extraction and loading, and then it is rewritten
\* with the in-memory set, which holds that batch; at every point of a run
\* a unit in the ledger was there when the run started or belongs to a
\* successful batch of this run.
C15_LedgerOnlyAfterSuccess ==
    /\ [](run.n >= 1 =>
             /\ ledger \subseteq run.ledger0 \cup run.succeeded
             /\ ledger = IF run.succeeded = {} THEN run.ledger0
                         ELSE processed)
    /\ [][ledger' # ledger => run'.n = run.n /\ run'.succeeded # run.succeeded]_vars
    /\ [][(run'.n = run.n /\ run'.succeeded # run.succeeded) =>
             /\ ledger' = processed'
             /\ run'.succeeded \subseteq ledger'
             /\ processed' = processed \cup (run'.succeeded \ run.succeeded)]_vars

\* C15 witness: a run over a ledger that was not empty has finished with a
\* batch that succeeded and a batch that failed
C15_MixedRunDone ==
    /\ run.n = 1 /\ ppc = "done"
    /\ run.ledger0 # {}
    /\ run.succeeded # {} /\ ~run.all_ok

\* what a run has to dispatch
DueUnits == IF run.force THEN zip_files ELSE zip_files \ run.ledger0

\* C16: a run dispatches units of the input directory only, each at most
\* once; with --force a finished run has dispatched every ZIP found,
\* whatever the ledger holds; without --force it has dispatched exactly the
\* ZIPs found whose names were not in the ledger, and never one whose name
\* was in it.
C16_ForceBypassesLedger ==
    run.n >= 1 =>
        /\ Range(run.dispatched) \subseteq DueUnits
        /\ Range(to_process) = DueUnits
        /\ \A i, j \in DOMAIN run.dispatched :
              run.dispatched[i] = run.dispatched[j] => i = j
        /\ ppc = "done" => Range(run.dispatched) = DueUnits
        /\ ~run.force => Range(run.dispatched) \cap run.ledger0 = {}

\* C16 witness: a finished --force run dispatched a ZIP that was in the
\* ledger
C16_ForcedRedispatch ==
    /\ run.n >= 1 /\ run.force /\ ppc = "done"
    /\ Range(run.dispatched) \cap run.ledger0 # {}

\* C17, for process_all_edrm: a run that finds no ZIP file in the input
\* directory exits with a non-zero status.
C17_NoInputExitsNonZero ==
    (run.n >= 1 /\ zip_files = {} /\ run.exit # None) => run.exit[1] # 0


(***************************************************************************)
(* Claims about the units of the loaders (SpecLoad).                       *)
(***************************************************************************)

\* the tables EDRMLoader writes
EdrmTables == {"attachments", "links", "flagged"}

\* C18, for EDRMLoader: when a relational write of an email raised and
\* load() went on, no row that the email added to the store is ever
\* committed: the committed tables hold nothing beyond what the store held
\* when the email was taken.
C18_FailedUnitCommitsNothing ==
    (Handled /\ cur[1].failed /\ ~cur[1].crashed /\ cur[1].calls # <<>>) =>
        \A t \in EdrmTables : committed[t] \subseteq cur[1].db0[t]


\* C19: when load() has handled an email that brought emails_processed to
\* a multiple of the commit interval, a commit has been issued: no write is
\* pending in the open transaction, whatever the outcome of that email.
C19_CommitAfterEveryInterval ==
    (Handled /\ lpc = "load" /\ lstats.emails_processed % CommitInterval = 0) =>
        /\ db = committed
        /\ ~aborted


(***************************************************************************)
(* Claims about failed extractions (SpecCAS).                              *)
(***************************************************************************)

\* C20, for EDRMExtractor: an attachment whose extraction fails (a read or
\* write error, or its native file missing from the archive) adds exactly
\* one to the errors counter, is not added to the results or the digest
\* index, and the loop can go on with the next attachment.
C20_FailedExtractionCountedOnce ==
    /\ [][(tool = "extract_edrm" /\ last_put' # None /\ last_put' # last_put
              /\ last_put'[1].outcome \in {"error", "missing"}) =>
              /\ stats'.errors = stats.errors + 1
              /\ attachments' = attachments
              /\ hash_cache' = hash_cache
              /\ ~last_put'[1].ok]_vars
    /\ []((last_put # None /\ last_put[1].outcome \in {"error", "missing"}
              /\ Calls(putLog) < MaxPuts) => NextAttachmentTaken)


(***************************************************************************)
(* Claims about process_zip (SpecZip).                                     *)
(***************************************************************************)

\* archives that are malformed input units
Malformed == {"bad_zip", "no_xml", "xml_parse_error"}

\* C21, for EDRMExtractor: a malformed archive (no ZIP file, no metadata
\* XML, XML not well-formed) is skipped, adds exactly one to the errors
\* counter and is not counted in zips_processed.
C21_MalformedZipCountedOnce ==
    [][(zf'.n = zf.n + 1 /\ zf'.kind \in Malformed) =>
          /\ stats'.errors = stats.errors + 1
          /\ stats'.zips_processed = stats.zips_processed
          /\ attachments' = attachments
          /\ ~zf'.open]_vars

\* C30: the records kept in the results are as many as
\* attachments_extracted + attachments_deduplicated; every kept record has
\* a digest that hash_cache maps to the record's storage path; and
\* attachments_found is at least attachments_extracted +
\* attachments_deduplicated + attachments_too_large.
C30_ResultsMatchCounters ==
    /\ Len(attachments) = stats.attachments_extracted + stats.attachments_deduplicated
    /\ \A i \in DOMAIN attachments :
          /\ attachments[i].sha256_hash \in DOMAIN hash_cache
          /\ hash_cache[attachments[i].sha256_hash] = attachments[i].storage_path
    /\ stats.attachments_found >=
          stats.attachments_extracted + stats.attachments_deduplicated
          + stats.attachments_too_large

\* C30 witness: two archives went through process_zip; a payload was
\* extracted and met again, an attachment was too large and one failed
C30_TwoZipsAllOutcomes ==
    /\ zf.n = 2 /\ ~zf.open /\ stats.zips_processed = 2
    /\ stats.attachments_extracted = 1 /\ stats.attachments_deduplicated = 1
    /\ stats.attachments_too_large = 1 /\ stats.errors = 1
    /\ stats.attachments_found = 4


(***************************************************************************)
(* Claims about failures inside the loops of the loaders (SpecLoad).       *)
(***************************************************************************)

\* C22, for EDRMLoader.load: a statement that raises while one email is
\* handled (the matcher query, an attachment upsert, a link insert or the
\* has_attachments update) never leaves load(): the loop stays ready for
\* the next email.
C22_UnitFailureStaysInLoop ==
    (Handled /\ cur[1].failed) => (~cur[1].crashed /\ lpc # "crashed")


\* main of load_edrm_attachments.py calls print_stats right after load()
\* has returned (lines 395-396); an exception that leaves load() skips it
\* and ends the process (lines 397-398)
SummaryPrinted == lpc = "done"
RunEnded == lpc \in {"done", "crashed"}

\* C23, for load_edrm_attachments.py: no run of the loader that has entered
\* load() ends without having printed its statistics summary, also when a
\* database error occurred while loading.
C23_NoRunEndsWithoutSummary ==
    (loader = "load_edrm" /\ nload >= 1 /\ RunEnded) => SummaryPrinted


(***************************************************************************)
(* Claims about the first writer of a digest (SpecStore).                  *)
(***************************************************************************)

\* the store was called with a payload it read, of at most the maximum
\* size, whose digest was in the index
PutOfIndexed ==
    /\ PutStep
    /\ last_put'[1].member.found
    /\ last_put'[1].member.io # "read_error"
    /\ ~TooLarge(last_put'[1].member.data)
    /\ Sha256(last_put'[1].member.data) \in Index

\* C24: once a digest is in the index of an extractor, a later put of the
\* same digest is a duplicate: no file is written, the index keeps the path
\* of the first write and the record of the later attachment gets that
\* path.  In the loaders a digest has at most one attachments row, no step
\* changes the row of a digest that has one, and the id the cache returns
\* for a digest that has a row is the id of that row.
C24_FirstWriterWins ==
    /\ [][PutOfIndexed =>
             /\ last_put'[1].outcome = "dedup"
             /\ blobs' = blobs
             /\ Index' = Index
             /\ hash_cache' = hash_cache
             /\ Len(attachments') = Len(attachments) + 1
             /\ attachments'[Len(attachments')].storage_path =
                   IF tool = "extract_edrm"
                   THEN hash_cache[Sha256(last_put'[1].member.data)]
                   ELSE parser_get_storage_path(Sha256(last_put'[1].member.data))]_vars
    /\ [](\A r1, r2 \in db.attachments :
              r1.sha256_hash = r2.sha256_hash => r1 = r2)
    /\ [][\A r \in db.attachments :
              RowsOf(db'.attachments, r.sha256_hash) \subseteq {r}]_vars
    /\ [](\A h \in DOMAIN attachment_cache :
              \A r \in RowsOf(db.attachments, h) : r.id = attachment_cache[h])

\* C24 witness: EDRMLoader has met the digest of "a.d" again under the
\* name "c.d": one row, with the first name, and a committed link to it
\* for "c.d"
C24_SecondNameSameRow ==
    /\ loader = "load_edrm"
    /\ \E r \in committed.attachments :
          /\ r.original_filename = "a.d"
          /\ \E l \in committed.links : l.attachment_id = r.id /\ l.filename = "c.d"

\* C24 in PostgresLoader: a second process has found the row of a digest
\* by its SELECT and linked a message to it
FoundBySelect ==
    /\ loader = "load_postgres" /\ nload = 2
    /\ bstats.attachments = 0 /\ bstats.attachments_deduplicated >= 1
    /\ \E r \in committed.attachments :
          \E l \in db.links \ committed.links : l.attachment_id = r.id

\* C24 witness for the extractors: a duplicate put has been recorded
DuplicatePutRecorded ==
    /\ last_put # None /\ last_put[1].outcome = "dedup"
    /\ Len(attachments) >= 2


(***************************************************************************)
(* Claims about concurrent loader processes (SpecRace).                    *)
(***************************************************************************)

\* C25: when two loader processes put the same digest at the same time,
\* both past the presence check before either inserts, no unit fails or
\* loses its pending writes, the processes that have the id of the digest
\* have the same one, and the committed store holds at most one row of it.
C25_ConcurrentPutsBothSucceed ==
    /\ \A p \in Workers : workers[p].raced => workers[p].pc # "failed"
    /\ \A p, o \in Workers :
          (workers[p].sha = workers[o].sha /\ workers[p].pc = "done"
              /\ workers[o].pc = "done") => workers[p].id = workers[o].id
    /\ \A r1, r2 \in committed.attachments :
          r1.sha256_hash = r2.sha256_hash => r1 = r2


(***************************************************************************)
(* Claims about PostgresLoader.load_batch (SpecLoad).                      *)
(***************************************************************************)

\* C26: in PostgresLoader every id in people_cache and attachment_cache
\* is the id of a row the open transaction sees, and every message and
\* link row names a person and an attachment that have a row.
C26_CachedIdsHaveRows ==
    loader = "load_postgres" =>
        /\ \A e \in DOMAIN people_cache :
              \E r \in db.people : r.id = people_cache[e]
        /\ \A h \in DOMAIN attachment_cache :
              \E r \in db.attachments : r.id = attachment_cache[h]
        /\ \A m \in db.msgs :
              m.from_person_id # None =>
                  \E r \in db.people : r.id = m.from_person_id[1]
        /\ \A l \in db.links : \E r \in db.attachments : r.id = l.attachment_id

\* what C26 forbids does happen: a committed message row whose sender id
\* has no row
DanglingSenderCommitted ==
    /\ loader = "load_postgres"
    /\ \E m \in committed.msgs :
          /\ m.from_person_id # None
          /\ \A r \in committed.people : r.id # m.from_person_id[1]


(***************************************************************************)
(* Claims about the ledger and the batches of process_all_edrm (SpecPipe). *)
(***************************************************************************)

\* C27: a run of process_all_edrm never removes a name from the ledger
\* file: at every point of a run, with or without --force, the file holds
\* every name it held when the run started.
C27_LedgerNeverShrinks ==
    run.n >= 1 => run.ledger0 \subseteq ledger

\* C29: the units to process are the due units in sorted order; after b
\* iterations of the batch loop the units dispatched are the first
\* b * batch_size of them (all of them if there are fewer), in that order,
\* each iteration dispatching the next 1..batch_size units; when the run is
\* over every due unit has been dispatched exactly once.
C29_ConsecutiveBatches ==
    /\ [](run.n >= 1 =>
             /\ to_process = Sorted(DueUnits)
             /\ run.dispatched =
                   SubSeq(to_process, 1,
                          Min(batch_num * run.batch_size, Len(to_process)))
             /\ (ppc = "done" => run.dispatched = to_process))
    /\ [][(run'.n = run.n /\ batch_num' = batch_num + 1) =>
             \E n \in 1..run.batch_size :
                 /\ Len(run'.dispatched) = Len(run.dispatched) + n
                 /\ SubSeq(run'.dispatched, 1, Len(run.dispatched)) = run.dispatched
                 /\ (n < run.batch_size => ppc' = "done")]_vars

\* C29 witness: three units went out in a batch of two and a batch of one
C29_TwoThenOne ==
    /\ ppc = "done" /\ run.batch_size = 2 /\ batch_num = 2
    /\ Len(run.dispatched) = 3


\* C28: when load_batch of the first PostgresLoader process on an empty
\* database has returned, stats['messages'] is the number of message rows
\* committed.
C28_CountedMessagesAreCommitted ==
    (loader = "load_postgres" /\ nload = 1 /\ lpc = "between") =>
        bstats.messages = Cardinality(committed.msgs)

====
